---- MODULE Spec2Model ----
(***************************************************************************)
(* Model of the core-analytics ingestion pipeline:                         *)
(*   scripts/ingest-logs.js  (coordinator, filter, enrichment, denylist)   *)
(*   lib/db.js               (batch insert, cursor rows)                   *)
(*   lib/ai-classifier.js    (V2 classifier, lines 460-1264)               *)
(*   lib/asn-lookup.js, lib/geoip.js (src/unnamed/part_002, part_003)      *)
(*   scripts/backfill-historical-logs.js                                   *)
(*   scripts/reclassify-*.js, src/unnamed/part_005, part_006               *)
(*                                                                         *)
(* JavaScript strings are TLA+ strings; TLC evaluates Len, SubSeq and \o   *)
(* on them, so the string and regular-expression tests of the source are   *)
(* computed character by character.  null and undefined are both NULL.     *)
(***************************************************************************)
EXTENDS Integers, Sequences, FiniteSets, TLC

VARIABLES
  \* the environment
  journal,             \* the web server's access-log lines, oldest first
  clock,               \* time of the newest line, in microseconds
  appends,             \* times lines were appended
  banned,              \* addresses the reputation service bans right now
  journalctlReadsISO,  \* the machine's journalctl accepts toISOString() text
  \* the database
  store,               \* table events, in insertion order, which the
                       \* ingestion and the backfill both write
  cursorRows,          \* table ingestion_state, in created_at order
  \* the runs; each process is one execution of scripts/ingest-logs.js
  runsStarted,
  pc,                  \* where each process stands in ingest()
  run,                 \* which run the process is (0 before its first)
  bannedIPsCache, bannedIPsCacheTime,
  refreshFailed,       \* refreshBannedIPsCache took its catch branch
  lastProcessed, logEntries, events,
  latestTimestamp, latestCfRay, filteredCount,
  i,                   \* start of the next batch in events
  \* one call of classify(event)
  cEvent,              \* the event handed to classify
  cResult,             \* what classify returned
  cDone,               \* the call has returned
  \* one call of enrichEvent(event)
  ePc,                 \* the statement enrichEvent stands at
  eEvent,              \* the event object, written in place
  eGeoReader,          \* cityReader of geoip.js after initGeoIP, which the
                       \* dataset file on the machine decides
  eAsnReader,          \* asnReader of asn-lookup.js after initASN, likewise
  \* calls of refreshBannedIPsCache() in one process
  rClock,              \* Date.now(), in milliseconds
  rBanned,             \* addresses the reputation service bans right now
  rCache, rCacheTime,  \* bannedIPsCache and bannedIPsCacheTime of the process
  rCalls,              \* calls made so far
  rOutcome,            \* how the latest call ended
  rLastSuccess,        \* Date.now() of the latest call that stored a listing
  \* executions of scripts/backfill-historical-logs.js, numbered as they
  \* are started; what an execution holds is indexed by its number
  bJournal,            \* the historical access-log lines, oldest first
  bRuns,               \* executions started so far
  bPc,                 \* where the execution stands in backfill()
  bCurrent, bLast,     \* currentDate of backfill(), in milliseconds, and
                       \* the day of endDate
  bClockChange,        \* the change of the local clock of the machine, if
                       \* one falls in the days of the journal
  bEvents, bI,         \* enrichedEvents of processDay and its loop index
  bCovered,            \* days this execution went through without error
  bCompleted,          \* days covered by the executions that completed
  \* executions of the scripts that rewrite the classification columns
  sPc,                 \* of each script, where its executions stand, in
                       \* the order they were started
  sTodo,               \* the UPDATE statements each has still to issue
  sStarted             \* executions started so far

NULL == "<null>"

(***************************************************************************)
(* String primitives: the methods of String.prototype the source uses     *)
(***************************************************************************)
UpperToLower ==
  [c \in {"A","B","C","D","E","F","G","H","I","J","K","L","M",
          "N","O","P","Q","R","S","T","U","V","W","X","Y","Z"} |->
     CASE c = "A" -> "a" [] c = "B" -> "b" [] c = "C" -> "c" [] c = "D" -> "d"
       [] c = "E" -> "e" [] c = "F" -> "f" [] c = "G" -> "g" [] c = "H" -> "h"
       [] c = "I" -> "i" [] c = "J" -> "j" [] c = "K" -> "k" [] c = "L" -> "l"
       [] c = "M" -> "m" [] c = "N" -> "n" [] c = "O" -> "o" [] c = "P" -> "p"
       [] c = "Q" -> "q" [] c = "R" -> "r" [] c = "S" -> "s" [] c = "T" -> "t"
       [] c = "U" -> "u" [] c = "V" -> "v" [] c = "W" -> "w" [] c = "X" -> "x"
       [] c = "Y" -> "y" [] c = "Z" -> "z"]

LowerToUpper ==
  [c \in {"a","b","c","d","e","f","g","h","i","j","k","l","m",
          "n","o","p","q","r","s","t","u","v","w","x","y","z"} |->
     CHOOSE u \in DOMAIN UpperToLower : UpperToLower[u] = c]

WordChars ==
  DOMAIN UpperToLower \cup DOMAIN LowerToUpper
    \cup {"0","1","2","3","4","5","6","7","8","9","_"}

charAt(s, pos) == SubSeq(s, pos, pos)

lowerChar(c) == IF c \in DOMAIN UpperToLower THEN UpperToLower[c] ELSE c
upperChar(c) == IF c \in DOMAIN LowerToUpper THEN LowerToUpper[c] ELSE c

\* s[lo..hi] with every character mapped by f; the range is halved so that
\* the evaluation depth stays logarithmic in the length
RECURSIVE mapChars(_, _, _, _)
mapChars(s, f, lo, hi) ==
  IF lo > hi THEN ""
  ELSE IF lo = hi
    THEN (LET c == charAt(s, lo) IN IF c \in DOMAIN f THEN f[c] ELSE c)
    ELSE LET mid == (lo + hi) \div 2
         IN mapChars(s, f, lo, mid) \o mapChars(s, f, mid + 1, hi)

toLowerCase(s) == mapChars(s, UpperToLower, 1, Len(s))
toUpperCase(s) == mapChars(s, LowerToUpper, 1, Len(s))

\* s has t at (1-based) position pos
occursAt(s, t, pos) ==
  /\ pos >= 1
  /\ pos + Len(t) - 1 <= Len(s)
  /\ SubSeq(s, pos, pos + Len(t) - 1) = t

\* the same, letters compared without case (the /i flag)
occursAtCI(s, t, pos) ==
  /\ pos >= 1
  /\ pos + Len(t) - 1 <= Len(s)
  /\ \A k \in 1..Len(t) :
       lowerChar(charAt(s, pos + k - 1)) = lowerChar(charAt(t, k))

startsWith(s, t) == occursAt(s, t, 1)
endsWith(s, t)   == occursAt(s, t, Len(s) - Len(t) + 1)
includes(s, t)   == \E pos \in 1..(Len(s) - Len(t) + 1) : occursAt(s, t, pos)

\* position of the first occurrence of t in s at or after from, 0 when none
indexOfFrom(s, t, from) ==
  LET hits == {pos \in from..(Len(s) - Len(t) + 1) : occursAt(s, t, pos)}
  IN IF hits = {} THEN 0 ELSE CHOOSE pos \in hits : \A j \in hits : pos <= j

\* String.prototype.split(sep) for a non-empty separator
RECURSIVE splitFrom(_, _, _)
splitFrom(s, sep, from) ==
  LET k == indexOfFrom(s, sep, from)
  IN IF k = 0 THEN << SubSeq(s, from, Len(s)) >>
     ELSE << SubSeq(s, from, k - 1) >> \o splitFrom(s, sep, k + Len(sep))

split(s, sep) == splitFrom(s, sep, 1)

\* Array.prototype.slice(0, n)
sliceTo(a, n) == SubSeq(a, 1, IF n < Len(a) THEN n ELSE Len(a))

\* Array.prototype.join(sep)
RECURSIVE join(_, _)
join(a, sep) ==
  IF Len(a) = 0 THEN ""
  ELSE IF Len(a) = 1 THEN a[1]
  ELSE a[1] \o sep \o join(Tail(a), sep)

\* String(x): undefined and null print as words when a RegExp tests them
toStr(v) == IF v = NULL THEN "undefined" ELSE v

(***************************************************************************)
(* Regular expressions.  Every pattern of the source is an alternation of  *)
(* literal sequences: alts is a set of tuples of literals, the literals of *)
(* one tuple joined by dot-star, where the dot matches any character but   *)
(* a line terminator.  anchor is "^", "$" or "", ci is the /i              *)
(* flag, wb says the pattern stands between two word boundaries, nla is    *)
(* the text of a negative lookahead after the literal ("" when none).      *)
(***************************************************************************)
Rx(anchor, ci, alts) ==
  [anchor |-> anchor, ci |-> ci, alts |-> alts, wb |-> FALSE, nla |-> ""]
RxI(lit)      == Rx("", TRUE, {<<lit>>})
RxStartI(lit) == Rx("^", TRUE, {<<lit>>})
RxEndI(lit)   == Rx("$", TRUE, {<<lit>>})
RxWordI(lit)  == [Rx("", TRUE, {<<lit>>}) EXCEPT !.wb = TRUE]

isWordAt(s, pos) == pos >= 1 /\ pos <= Len(s) /\ charAt(s, pos) \in WordChars

\* \b holds between positions pos-1 and pos
boundaryBefore(s, pos) == isWordAt(s, pos - 1) # isWordAt(s, pos)

at(rx, s, t, pos) == IF rx.ci THEN occursAtCI(s, t, pos) ELSE occursAt(s, t, pos)

\* the characters "." does not match: line feed and carriage return (and
\* U+2028, U+2029, which no text here holds)
LineTerminators == {"\n", "\r"}

\* ".*" matches s[lo..hi]
dotStar(s, lo, hi) == \A pos \in lo..hi : charAt(s, pos) \notin LineTerminators

\* the literals segs[k..] match in s, the k-th starting at or after from
\* and, when it is not the first, after characters that ".*" matches
RECURSIVE matchSegs(_, _, _, _, _)
matchSegs(rx, s, segs, k, from) ==
  IF k > Len(segs) THEN TRUE
  ELSE \E pos \in from..(Len(s) - Len(segs[k]) + 1) :
         /\ at(rx, s, segs[k], pos)
         /\ k > 1 => dotStar(s, from, pos - 1)
         /\ matchSegs(rx, s, segs, k + 1, pos + Len(segs[k]))

matchAlt(rx, s, segs) ==
  LET lit == segs[1]
      n   == Len(lit)
  IN IF Len(segs) > 1 THEN matchSegs(rx, s, segs, 1, 1)
     ELSE \E pos \in 1..(Len(s) - n + 1) :
            /\ at(rx, s, lit, pos)
            /\ rx.anchor = "^" => pos = 1
            /\ rx.anchor = "$" => pos + n - 1 = Len(s)
            /\ rx.wb => boundaryBefore(s, pos) /\ boundaryBefore(s, pos + n)
            /\ rx.nla # "" => ~at(rx, s, rx.nla, pos + n)

\* RegExp.prototype.test
RegexTest(rx, str) == \E segs \in rx.alts : matchAlt(rx, toStr(str), segs)

\* Array.prototype.some(p => p.test(str))
somePattern(patterns, str) ==
  \E k \in 1..Len(patterns) : RegexTest(patterns[k], str)

\* the first pattern of a name-to-pattern table that matches, as
\* for (const [name, pattern] of Object.entries(table)); NULL when none
nameOfFirst(table, hits) ==
  IF hits = {} THEN NULL
  ELSE table[CHOOSE k \in hits : \A j \in hits : k <= j].name

firstMatch(table, str) ==
  nameOfFirst(table, {k \in 1..Len(table) : RegexTest(table[k].rx, str)})

(***************************************************************************)
(* JavaScript objects.  A property that is absent is not in the DOMAIN of  *)
(* the record; get(o, f) is o[f] with undefined read as NULL.  A header    *)
(* value is Arr(<<...>>) (the list-valued multimap of the web server's     *)
(* log) or Str("...") (a plain string, as in the classifier's test cases). *)
(***************************************************************************)
EmptyObject == [f \in {} |-> NULL]

\* an object from a set of <<property name, value>> pairs
Object(pairs) ==
  [f \in {pr[1] : pr \in pairs} |-> (CHOOSE pr \in pairs : pr[1] = f)[2]]
Arr(vs) == [t |-> "arr", v |-> vs]
Str(sv) == [t |-> "str", v |-> sv]

has(o, f) == f \in DOMAIN o
get(o, f) == IF f \in DOMAIN o THEN o[f] ELSE NULL

\* !!headers[name]: an array is truthy even when empty, a string when non-empty
truthyHeader(headers, name) ==
  /\ name \in DOMAIN headers
  /\ headers[name].t = "arr" \/ headers[name].v # ""

\* (headers[name] || [])[0]
firstValue(headers, name) ==
  IF ~truthyHeader(headers, name) THEN NULL
  ELSE LET h == headers[name]
       IN IF h.t = "arr" THEN (IF Len(h.v) = 0 THEN NULL ELSE h.v[1])
          ELSE charAt(h.v, 1)

\* headers[name].includes(text): Array.prototype.includes on a list,
\* String.prototype.includes on a string
headerIncludes(headers, name, text) ==
  LET h == headers[name]
  IN IF h.t = "arr" THEN \E k \in 1..Len(h.v) : h.v[k] = text
     ELSE includes(h.v, text)

\* a string is truthy when it is neither null/undefined nor empty
truthy(sv) == sv # NULL /\ sv # ""

\* sv || fallback
orElse(sv, fallback) == IF truthy(sv) THEN sv ELSE fallback

(***************************************************************************)
(* lib/ai-classifier.js, V2 (lines 460-1264)                               *)
(***************************************************************************)

\* ---- Stage 1: human detection ----
hasSecFetchSite(headers) ==
  \/ truthyHeader(headers, "Sec-Fetch-Site")
  \/ truthyHeader(headers, "Sec-Fetch-Mode")
  \/ truthyHeader(headers, "Sec-Fetch-Dest")

hasClientHints(headers) ==
  \/ truthyHeader(headers, "Sec-Ch-Ua")
  \/ truthyHeader(headers, "Sec-Ch-Ua-Mobile")
  \/ truthyHeader(headers, "Sec-Ch-Ua-Platform")

hasProperAccept(headers) ==
  /\ truthyHeader(headers, "Accept")
  /\ headerIncludes(headers, "Accept", "text/html")

headlessPatterns ==
  << RxI("HeadlessChrome"), RxI("Puppeteer"), RxI("Playwright"),
     RxI("Selenium"), RxI("PhantomJS"), RxI("SlimerJS"), RxI("electron") >>

isHeadlessBrowser(userAgent, headers) ==
  IF ~truthy(userAgent) THEN FALSE
  ELSE \/ somePattern(headlessPatterns, userAgent)
       \/ truthyHeader(headers, "X-DevTools-Emulate-Network-Conditions-Client-Id")
       \/ truthyHeader(headers, "Webdriver")
       \/ includes(userAgent, "webdriver")

\* a rate check with the threshold at one request a second
rateAboveOne(stats) ==
  stats.duration_seconds > 0 /\ stats.request_count > stats.duration_seconds

\* requestRate > 0.5 with requestRate = request_count / duration_seconds
rateAboveHalf(stats) ==
  stats.duration_seconds > 0 /\ 2 * stats.request_count > stats.duration_seconds

\* a human gate without its datacenter rule
isDefinitelyHumanAnywhere(event, headers, sessionStats) ==
  IF ~hasSecFetchSite(headers) THEN FALSE
  ELSE IF ~hasClientHints(headers) /\ ~hasProperAccept(headers) THEN FALSE
  ELSE IF isHeadlessBrowser(get(event, "user_agent"), headers) THEN FALSE
  ELSE IF sessionStats.present /\ rateAboveHalf(sessionStats) THEN FALSE
  ELSE TRUE

isDefinitelyHuman(event, headers, sessionStats) ==
  IF ~hasSecFetchSite(headers) THEN FALSE
  ELSE IF ~hasClientHints(headers) /\ ~hasProperAccept(headers) THEN FALSE
  ELSE IF truthy(get(event, "datacenter_provider")) THEN FALSE
  ELSE IF isHeadlessBrowser(get(event, "user_agent"), headers) THEN FALSE
  ELSE IF sessionStats.present /\ rateAboveHalf(sessionStats) THEN FALSE
  ELSE TRUE

\* ---- Stage 2: attack traffic ----
wordpressPatterns ==
  << RxStartI("/wp-admin"), RxStartI("/wp-login"), RxStartI("/wp/"),
     RxI("wp-config"), RxI("xmlrpc.php"), RxI("wp-json/wp/v2/users"),
     Rx("", TRUE, {<<"/wp-content/plugins">>, <<"/wp-content/themes">>}),
     RxI("/wp-includes/"), RxI("wp-cron.php"),
     RxEndI("readme.html"), RxEndI("license.txt") >>

webshellPatterns ==
  << Rx("$", TRUE, {<<".php">>, <<".asp">>, <<".aspx">>, <<".jsp">>}),
     RxI("alfa.php"), RxI("c99.php"), RxI("shell.php"), RxI("cmd.php"),
     RxI("admin.php"), RxI("upload.php"), RxI("ALFA_DATA"), RxI("alfacgiapi") >>

suspiciousTerms ==
  << "alfa", "c99", "shell", "cmd", "admin/upload",
     "ALFA_DATA", "alfacgiapi", "lock360", "function.php" >>

configPatterns ==
  << RxI("/.env"),
     Rx("", TRUE, {<<"/config.php">>, <<"/config.json">>,
                   <<"/config.yml">>, <<"/config.yaml">>}),
     RxI("/.git"), RxI("/.svn"), RxI("phpmyadmin"), RxI("/pma/"),
     RxI("dbadmin"), RxI("sqladmin"), RxI("mysqladmin") >>

exploitPatterns ==
  << Rx("", FALSE, {<<"../">>, <<"..\\">>}),
     RxI("<script>"), Rx("", TRUE, {<<"union", "select">>}),
     RxI("eval("), RxI("base64_decode"), RxI("system("),
     RxI("exec("), RxI("passthru(") >>

Verdict(isBot, category, name, level, reason) ==
  [is_bot |-> isBot, bot_classification |-> category, bot_name |-> name,
   detection_level |-> level, detection_reason |-> reason]

NoVerdict == Verdict(FALSE, NULL, NULL, NULL, NULL)

\* a bot verdict under the matched name, none (null) without a match
Matched(name, category, level, reason) ==
  IF name = NULL THEN NoVerdict ELSE Verdict(TRUE, category, name, level, reason)

\* first, when it is a verdict, else second
otherwise(first, second) == IF first # NoVerdict THEN first ELSE second

\* Stage 2 with the config rule tried first
detectAttackConfigFirst(event) ==
  LET path == get(event, "path")
  IN IF somePattern(configPatterns, path)
       THEN Verdict(TRUE, "attack_config_scanner", "Config-Scanner", "1",
                    "Configuration file / database scanner")
     ELSE IF somePattern(wordpressPatterns, path)
       THEN Verdict(TRUE, "attack_wordpress_scanner", "WordPress-Scanner", "1",
                    "WordPress vulnerability scanning")
     ELSE IF /\ somePattern(webshellPatterns, path)
             /\ \E k \in 1..Len(suspiciousTerms) :
                  includes(toLowerCase(path), suspiciousTerms[k])
       THEN Verdict(TRUE, "attack_webshell_scanner", "WebShell-Scanner", "1",
                    "Web shell / backdoor scanning")
     ELSE IF somePattern(exploitPatterns, path)
       THEN Verdict(TRUE, "attack_exploit_attempt", "Exploit-Scanner", "1",
                    "Active exploit attempt detected")
     ELSE NoVerdict

detectAttackTraffic(event) ==
  LET path == get(event, "path")
  IN IF somePattern(wordpressPatterns, path)
       THEN Verdict(TRUE, "attack_wordpress_scanner", "WordPress-Scanner", "1",
                    "WordPress vulnerability scanning")
     ELSE IF /\ somePattern(webshellPatterns, path)
             /\ \E k \in 1..Len(suspiciousTerms) :
                  includes(toLowerCase(path), suspiciousTerms[k])
       THEN Verdict(TRUE, "attack_webshell_scanner", "WebShell-Scanner", "1",
                    "Web shell / backdoor scanning")
     ELSE IF somePattern(configPatterns, path)
       THEN Verdict(TRUE, "attack_config_scanner", "Config-Scanner", "1",
                    "Configuration file / database scanner")
     ELSE IF somePattern(exploitPatterns, path)
       THEN Verdict(TRUE, "attack_exploit_attempt", "Exploit-Scanner", "1",
                    "Active exploit attempt detected")
     ELSE NoVerdict

\* ---- Stage 3: bot-type categorization ----
Entry(name, rx) == [name |-> name, rx |-> rx]
Named(name)     == Entry(name, RxI(name))

OFFICIAL_AI_BOTS ==
  << Named("GPTBot"), Named("OAI-SearchBot"), Named("ChatGPT-User"),
     Named("ClaudeBot"), Named("Claude-Web"),
     Named("Google-Extended"), Named("Gemini-Deep-Research"),
     Named("GoogleAgent-Mariner"),
     Named("PerplexityBot"),
     Named("Meta-ExternalAgent"), Named("Meta-ExternalFetcher"),
     Named("Amazonbot"), Named("Applebot-Extended"), Named("Bytespider"),
     Named("YouBot") >>

WEB_CRAWLERS ==
  << Named("Googlebot"), Entry("Bingbot", RxI("bingbot")),
     Entry("Yahoo-Slurp", Rx("", TRUE, {<<"Yahoo", "Slurp">>})),
     Named("DuckDuckBot"), Named("Baiduspider"), Named("YandexBot"),
     Named("Sogou"), Named("Exabot"), Named("facebookexternalhit"),
     Named("Twitterbot"), Named("LinkedInBot"), Named("Slackbot"),
     Named("Discordbot"), Named("WhatsApp"), Named("TelegramBot"),
     Entry("Applebot", [RxI("Applebot") EXCEPT !.nla = "-Extended"]) >>

MONITORING_SERVICES ==
  << Entry("Cloudflare-Verify", Rx("", TRUE, {<<"Cloudflare", "Verification">>})),
     Entry("Cloudflare-Health", Rx("", TRUE, {<<"Cloudflare", "Health">>})),
     Named("UptimeRobot"), Named("Pingdom"), Named("StatusCake"),
     Named("Site24x7"), Named("Uptime.com"), Named("Freshping"),
     Entry("Monitor", RxStartI("Monitor")),
     Entry("Uptime-Check", Rx("", TRUE, {<<"uptime", "check">>})),
     Entry("Availability-Check", Rx("", TRUE, {<<"availability", "check">>})) >>

genericBotPattern ==
  Rx("", TRUE, {<<"bot">>, <<"crawler">>, <<"spider">>, <<"scraper">>, <<"curl">>,
                <<"wget">>, <<"python">>, <<"java">>, <<"http">>})

\* declared AI bots filed under tier 2
declaredAITierTwo(userAgent) ==
  IF ~truthy(userAgent) THEN NoVerdict
  ELSE Matched(firstMatch(OFFICIAL_AI_BOTS, userAgent), "ai_official", "2",
               "Official AI bot declared in User-Agent")

categorizeOfficialAI(userAgent) ==
  IF ~truthy(userAgent) THEN NoVerdict
  ELSE Matched(firstMatch(OFFICIAL_AI_BOTS, userAgent), "ai_official", "1",
               "Official AI bot declared in User-Agent")

simpleRootPaths ==
  << "/", "/robots.txt", "/favicon.ico", "/index.html", "/sitemap.xml" >>

isSimpleRootPath(path) == \E k \in 1..Len(simpleRootPaths) : simpleRootPaths[k] = path

monitoringByBehaviour(event) ==
  LET userAgent == get(event, "user_agent")
      path      == get(event, "path")
      provider  == get(event, "datacenter_provider")
  IN IF \/ /\ truthy(path)
           /\ includes(path, ".well-known/cf-custom-hostname-challenge")
        \/ /\ truthy(userAgent)
           /\ RegexTest(Rx("", TRUE, {<<"Cloudflare", "Custom", "Hostname">>}),
                        userAgent)
       THEN Verdict(TRUE, "monitoring_service", "Cloudflare-Verify", "2",
                    "Cloudflare custom hostname verification")
     ELSE IF truthy(provider) /\ ~truthy(userAgent) /\ isSimpleRootPath(path)
       THEN Verdict(TRUE, "monitoring_service", toUpperCase(provider) \o "-Monitor",
                    "2", provider \o " availability check (no UA, simple path)")
     ELSE NoVerdict

categorizeMonitoring(event) ==
  otherwise(
    IF truthy(get(event, "user_agent"))
      THEN Matched(firstMatch(MONITORING_SERVICES, event.user_agent),
                   "monitoring_service", "2", "Uptime/monitoring service")
      ELSE NoVerdict,
    monitoringByBehaviour(event))

categorizeWebCrawler(userAgent) ==
  IF ~truthy(userAgent) THEN NoVerdict
  ELSE otherwise(
         Matched(firstMatch(WEB_CRAWLERS, userAgent), "web_crawler", "1",
                 "Traditional web crawler"),
         IF isHeadlessBrowser(userAgent, EmptyObject)
           THEN Verdict(TRUE, "web_crawler", "Headless-Browser", "1",
                        "Headless browser automation detected")
         ELSE IF RegexTest(genericBotPattern, userAgent)
           THEN Verdict(TRUE, "web_crawler", "Generic-Crawler", "1",
                        "Generic bot/crawler pattern in User-Agent")
         ELSE NoVerdict)

SHORT_UA_LENGTH == 50

\* a datacenter crawler named after the provider as it is written
datacenterCrawlerAsWritten(event) ==
  LET provider  == get(event, "datacenter_provider")
      userAgent == get(event, "user_agent")
      path      == get(event, "path")
  IN IF ~truthy(provider) THEN NoVerdict
     ELSE IF truthy(userAgent) /\ Len(userAgent) > SHORT_UA_LENGTH THEN NoVerdict
     ELSE IF ~truthy(path) \/ isSimpleRootPath(path) THEN NoVerdict
     ELSE Verdict(TRUE, "ai_stealth", provider \o "-Crawler", "2",
                  provider \o " datacenter + no UA + content path (systematic crawling)")

detectDatacenterCrawler(event) ==
  LET provider  == get(event, "datacenter_provider")
      userAgent == get(event, "user_agent")
      path      == get(event, "path")
  IN IF ~truthy(provider) THEN NoVerdict
     ELSE IF truthy(userAgent) /\ Len(userAgent) > SHORT_UA_LENGTH THEN NoVerdict
     ELSE IF ~truthy(path) \/ isSimpleRootPath(path) THEN NoVerdict
     ELSE Verdict(TRUE, "ai_stealth", toUpperCase(provider) \o "-Crawler", "2",
                  provider \o " datacenter + no UA + content path (systematic crawling)")

isBrowserUA(userAgent) ==
  IF ~truthy(userAgent) THEN FALSE
  ELSE /\ includes(userAgent, "Mozilla")
       /\ \/ includes(userAgent, "Chrome")
          \/ includes(userAgent, "Safari")
          \/ includes(userAgent, "Firefox")
          \/ includes(userAgent, "Edge")

\* stealth AI filed under tier 3
stealthAITierThree(event, headers) ==
  LET provider == get(event, "datacenter_provider")
  IN IF ~truthy(provider) THEN NoVerdict
     ELSE IF ~isBrowserUA(get(event, "user_agent")) THEN NoVerdict
     ELSE IF hasSecFetchSite(headers) THEN NoVerdict
     ELSE Verdict(TRUE, "ai_stealth", toUpperCase(provider) \o "-Stealth-AI", "3",
                  "Datacenter + browser UA + missing Sec-Fetch headers")

detectStealthAI(event, headers) ==
  LET provider == get(event, "datacenter_provider")
  IN IF ~truthy(provider) THEN NoVerdict
     ELSE IF ~isBrowserUA(get(event, "user_agent")) THEN NoVerdict
     ELSE IF hasSecFetchSite(headers) THEN NoVerdict
     ELSE Verdict(TRUE, "ai_stealth", toUpperCase(provider) \o "-Stealth-AI", "2",
                  "Datacenter + browser UA + missing Sec-Fetch headers")

\* ---- Stage 4: fallback ----
determineUndeterminedReason(event) ==
  LET noUA == ~truthy(get(event, "user_agent"))
      dc   == truthy(get(event, "datacenter_provider"))
      noSF == ~has(event, "headers") \/ ~truthyHeader(event.headers, "Sec-Fetch-Site")
      reasons ==
        (IF noUA THEN << "No User-Agent" >> ELSE << >>)
        \o (IF dc THEN << "Datacenter: " \o event.datacenter_provider >> ELSE << >>)
        \o (IF noSF THEN << "Missing Sec-Fetch headers" >> ELSE << >>)
  IN IF Len(reasons) = 0 THEN "Failed human verification checks"
     ELSE join(reasons, ", ")

\* a fallback outside the vocabulary of categories
undeterminedAsUnknown(event) ==
  Verdict(TRUE, "unknown", "Undetermined-Bot", "3", determineUndeterminedReason(event))

\* a fallback that does not flag the event as a bot
undeterminedNotBot(event) ==
  Verdict(FALSE, "bot_undetermined", "Undetermined-Bot", "3",
          determineUndeterminedReason(event))

classifyAsUndetermined(event) ==
  Verdict(TRUE, "bot_undetermined", "Undetermined-Bot", "3",
          determineUndeterminedReason(event))

\* ---- main classification ----
NoSessionStats == [present |-> FALSE]
SessionStats(count, seconds) ==
  [present |-> TRUE, request_count |-> count, duration_seconds |-> seconds]

\* a waterfall that looks for monitoring services before web crawlers
classifyMonitoringFirst(event) ==
  LET headers      == IF has(event, "headers") THEN event.headers ELSE EmptyObject
      sessionStats == IF has(event, "sessionStats") THEN event.sessionStats
                      ELSE NoSessionStats
  IN IF isDefinitelyHuman(event, headers, sessionStats)
       THEN Verdict(FALSE, "human", NULL, NULL, "Passed all human verification checks")
     ELSE otherwise(detectAttackTraffic(event),
          otherwise(categorizeOfficialAI(get(event, "user_agent")),
          otherwise(categorizeMonitoring(event),
          otherwise(categorizeWebCrawler(get(event, "user_agent")),
          otherwise(detectDatacenterCrawler(event),
          otherwise(detectStealthAI(event, headers),
                    classifyAsUndetermined(event)))))))

\* a waterfall that looks for declared AI bots before attack traffic
classifyDeclaredFirst(event) ==
  LET headers      == IF has(event, "headers") THEN event.headers ELSE EmptyObject
      sessionStats == IF has(event, "sessionStats") THEN event.sessionStats
                      ELSE NoSessionStats
  IN IF isDefinitelyHuman(event, headers, sessionStats)
       THEN Verdict(FALSE, "human", NULL, NULL, "Passed all human verification checks")
     ELSE otherwise(categorizeOfficialAI(get(event, "user_agent")),
          otherwise(detectAttackTraffic(event),
          otherwise(categorizeWebCrawler(get(event, "user_agent")),
          otherwise(categorizeMonitoring(event),
          otherwise(detectDatacenterCrawler(event),
          otherwise(detectStealthAI(event, headers),
                    classifyAsUndetermined(event)))))))

classify(event) ==
  LET headers      == IF has(event, "headers") THEN event.headers ELSE EmptyObject
      sessionStats == IF has(event, "sessionStats") THEN event.sessionStats
                      ELSE NoSessionStats
  IN IF isDefinitelyHuman(event, headers, sessionStats)
       THEN Verdict(FALSE, "human", NULL, NULL, "Passed all human verification checks")
     ELSE otherwise(detectAttackTraffic(event),
          otherwise(categorizeOfficialAI(get(event, "user_agent")),
          otherwise(categorizeWebCrawler(get(event, "user_agent")),
          otherwise(categorizeMonitoring(event),
          otherwise(detectDatacenterCrawler(event),
          otherwise(detectStealthAI(event, headers),
                    classifyAsUndetermined(event)))))))

\* ---- helpers for ingestion ----
detectBrowserSignals(headers) ==
  [has_sec_fetch_headers |->
     \/ truthyHeader(headers, "Sec-Fetch-Site")
     \/ truthyHeader(headers, "Sec-Fetch-Mode")
     \/ truthyHeader(headers, "Sec-Fetch-Dest")
     \/ truthyHeader(headers, "Sec-Fetch-User"),
   has_client_hints |-> hasClientHints(headers),
   is_mobile |->
     /\ has(headers, "Sec-Ch-Ua-Mobile")
     /\ headers["Sec-Ch-Ua-Mobile"].t = "str"
     /\ headers["Sec-Ch-Ua-Mobile"].v = "?1"]

\* headers[name] || null
NullValue == [t |-> "null", v |-> NULL]
headerOrNull(headers, name) ==
  IF truthyHeader(headers, name) THEN headers[name] ELSE NullValue

extractBotHeaders(headers) ==
  [bot_from_email   |-> headerOrNull(headers, "From"),
   openai_host_hash |-> headerOrNull(headers, "X-Openai-Host-Hash")]

detectSecurityFlags(headers, path) ==
  [has_cf_worker |-> truthyHeader(headers, "Cf-Worker"),
   cf_worker_domain |-> headerOrNull(headers, "Cf-Worker"),
   is_exploit_attempt |->
     detectAttackTraffic([path |-> path, headers |-> headers]) # NoVerdict]

(***************************************************************************)
(* ASN and GeoIP lookup (asn-lookup.js, geoip.js).  A reader is NoReader   *)
(* when the database file was absent at start-up, else Reader(db) with db  *)
(* a function from the addresses the database knows to its responses.      *)
(* Autonomous system numbers are kept as decimal strings, which is how     *)
(* they key the DATACENTER_ASN object.                                     *)
(***************************************************************************)
NoReader   == [loaded |-> FALSE]
Reader(db) == [loaded |-> TRUE, db |-> db]

\* asn-lookup.js of a process: asnReader, null until initASN has opened the
\* dataset, together with the DATACENTER_ASN object the lookups read
NoAsnReader(table)   == [loaded |-> FALSE, table |-> table]
AsnReader(db, table) == [loaded |-> TRUE, db |-> db, table |-> table]

DATACENTER_ASN ==
  {
     <<"8075", "azure">>, <<"15169", "gcp">>, <<"396982", "gcp">>,
     <<"16509", "aws">>, <<"14618", "aws">>, <<"13335", "cloudflare">>,
     <<"132892", "cloudflare">>, <<"16276", "ovh">>, <<"14061", "digitalocean">>,
     <<"20473", "vultr">>, <<"63949", "linode">>, <<"24940", "hetzner">>,
     <<"132203", "tencent">>, <<"45090", "tencent">>, <<"45102", "alibaba">>,
     <<"37963", "alibaba">>, <<"136907", "huawei">>, <<"55967", "baidu">>,
     <<"134756", "telecom-cloud">>, <<"59223", "telecom-cloud">>, <<"134768", "telecom-cloud">>,
     <<"23724", "telecom-cloud">>, <<"137693", "telecom-cloud">>, <<"58519", "hosting">>,
     <<"199785", "hosting">>, <<"204916", "hosting">>, <<"36352", "hosting">>,
     <<"18779", "hosting">>, <<"23576", "hosting">>, <<"48282", "hosting">>,
     <<"51396", "hosting">>, <<"55286", "hosting">>, <<"142002", "hosting">>,
     <<"198584", "hosting">>, <<"216071", "hosting">>, <<"394474", "hosting">>,
     <<"9009", "hosting">>, <<"46261", "hosting">>, <<"212512", "hosting">>,
     <<"11878", "hosting">>, <<"49505", "hosting">>, <<"50340", "hosting">>,
     <<"26548", "hosting">>, <<"64267", "hosting">>
  }

DATACENTER_PATTERNS ==
  << RxWordI("cloud"), RxWordI("hosting"), RxWordI("server"),
     RxWordI("datacenter"), RxWordI("data center"), RxWordI("vps"),
     RxWordI("virtual private server"), RxWordI("compute"),
     RxWordI("infrastructure"), RxWordI("colocation"), RxWordI("colo"),
     RxWordI("idc"), RxWordI("cdn") >>

\* DATACENTER_ASN[asn] || null
datacenterOfASN(table, asn) ==
  IF \E e \in table : e[1] = asn
    THEN (CHOOSE e \in table : e[1] = asn)[2]
    ELSE NULL

\* DATACENTER_ASN[asn] = provider
addDatacenterASN(reader, asn, provider) ==
  [reader EXCEPT !.table = {e \in @ : e[1] # asn} \cup {<< asn, provider >>}]

\* if (asnReader) asnReader = null, and the same of geoip.js
closeASN(reader)   == IF reader.loaded THEN NoAsnReader(reader.table) ELSE reader
closeGeoIP(reader) == IF reader.loaded THEN NoReader ELSE reader

NoASN == [asn |-> NULL, asn_org |-> NULL, datacenter_provider |-> NULL]

\* a lookup that tries the keyword patterns before the table
lookupASNByName(ip, reader) ==
  IF ~reader.loaded THEN NoASN
  ELSE IF ip \notin DOMAIN reader.db THEN NoASN
  ELSE LET response == reader.db[ip]
           asn      == response.autonomousSystemNumber
           org      == response.autonomousSystemOrganization
       IN [asn |-> asn, asn_org |-> org,
           datacenter_provider |->
             IF truthy(org) /\ somePattern(DATACENTER_PATTERNS, org)
               THEN "hosting" ELSE datacenterOfASN(reader.table, asn)]

lookupASN(ip, reader) ==
  IF ~reader.loaded THEN NoASN
  ELSE IF ip \notin DOMAIN reader.db THEN NoASN
  ELSE LET response == reader.db[ip]
           asn      == response.autonomousSystemNumber
           org      == response.autonomousSystemOrganization
       IN [asn |-> asn, asn_org |-> org,
           datacenter_provider |->
             orElse(datacenterOfASN(reader.table, asn),
                    IF truthy(org) /\ somePattern(DATACENTER_PATTERNS, org)
                      THEN "hosting" ELSE NULL)]

NoCity == [country |-> NULL, city |-> NULL, latitude |-> NULL, longitude |-> NULL]

\* x || null on a field of the response that may be missing or empty
orNull(o, f) == IF has(o, f) /\ truthy(o[f]) THEN o[f] ELSE NULL

\* x || null on a number of the response, which is kept as its decimal
\* text: the number 0 is falsy as a missing one is
numberOrNull(o, f) == IF has(o, f) /\ truthy(o[f]) /\ o[f] # "0" THEN o[f] ELSE NULL

\* a lookup that answers with a placeholder country when it has no answer
lookupCityPlaceholder(ip, reader) ==
  IF ~reader.loaded \/ ip \notin DOMAIN reader.db
    THEN [NoCity EXCEPT !.country = "ZZ"]
  ELSE LET response == reader.db[ip]
       IN [country   |-> orNull(response, "isoCode"),
           city      |-> orNull(response, "cityName"),
           latitude  |-> numberOrNull(response, "latitude"),
           longitude |-> numberOrNull(response, "longitude")]

lookupCity(ip, reader) ==
  IF ~reader.loaded THEN NoCity
  ELSE IF ip \notin DOMAIN reader.db THEN NoCity
  ELSE LET response == reader.db[ip]
       IN [country   |-> orNull(response, "isoCode"),
           city      |-> orNull(response, "cityName"),
           latitude  |-> numberOrNull(response, "latitude"),
           longitude |-> numberOrNull(response, "longitude")]

(***************************************************************************)
(* scripts/ingest-logs.js: parsing and enrichment                          *)
(***************************************************************************)
BATCH_SIZE == 100
CACHE_TTL  == 60000

HOME_IPS     == << "184.82.29.117" >>
HOME_SUBNETS == << "2405:9800:b911:2816::/64" >>

EXCLUDED_SITES ==
  << "pm.vivocare.org", "dementiarelocationsolutions.com",
     "www.dementiarelocationsolutions.com" >>

WORDPRESS_PATTERNS ==
  << RxStartI("/wp-admin"), RxStartI("/wordpress/wp-admin"), RxStartI("/wp/"),
     RxI("wp-login.php"), RxI("xmlrpc.php"), RxI("wp-config"),
     RxI("setup-config.php"),
     Rx("", TRUE, {<<"/wp-content/plugins">>, <<"/wp-content/themes">>}),
     RxI("/wp-includes/"), RxI("wp-json/wp/v2/users"),
     RxEndI("readme.html"), RxEndI("license.txt"), RxI("wp-cron.php"),
     RxI("?author="), RxI("wp-sitemap"), RxI("debug.log"), RxI("/.env"),
     RxI("phpmyadmin"), RxI("/pma/"), RxI("/dbadmin"), RxI("sqladmin"),
     RxI("mysqladmin"), RxI("/.git"), RxI("/.svn"),
     Rx("$", TRUE, {<<".bak">>, <<".backup">>, <<".old">>, <<".save">>,
                    <<".orig">>, <<".swp">>}),
     Rx("$", FALSE, {<<"~">>}) >>

arrayIncludes(arr, sv) == \E k \in 1..Len(arr) : arr[k] = sv

isBannedIP(ip, cache) == ip \in cache

\* (headers[name] || [])[0] || fallback
firstOr(headers, name, fallback) == orElse(firstValue(headers, name), fallback)

\* one turn of the loop over HOME_SUBNETS; the address is a string here
inHomeSubnet(subnet, clientIP) ==
  IF includes(subnet, "::")
    THEN LET subnetPrefix == split(subnet, "::")[1]
             ipPrefix     == join(sliceTo(split(clientIP, ":"), 4), ":")
         IN startsWith(clientIP, subnetPrefix) \/ ipPrefix = subnetPrefix
    ELSE LET subnetPrefix == join(sliceTo(split(subnet, "."), 3), ".")
             ipPrefix     == join(sliceTo(split(clientIP, "."), 3), ".")
         IN ipPrefix = subnetPrefix

\* what parseLogEntry hands back: null, an event, or a TypeError thrown
\* by clientIP.split on an undefined address
ReturnsNull     == [tag |-> "null"]
ThrowsTypeError == [tag |-> "TypeError"]
Returns(event)  == [tag |-> "event", event |-> event]

\* value || 0: the value of the field when it is truthy; 0 when the field
\* is absent, null, false, 0 or the empty string
numberOr0(o, f) ==
  LET falsy(v) == ToString(v) \in { ToString(NULL), ToString(""), ToString(0),
                                    ToString(FALSE) }
  IN IF has(o, f) /\ ~falsy(o[f]) THEN o[f] ELSE 0

\* new Date(ts * 1000): logEntry.ts is held in microseconds, a Date in
\* whole milliseconds
toDate(ts) == ts \div 1000

parseLogEntry(logEntry, cache) ==
  LET request  == IF has(logEntry, "request") THEN logEntry.request ELSE EmptyObject
      headers  == IF has(request, "headers") THEN request.headers ELSE EmptyObject
      clientIP == firstOr(headers, "Cf-Connecting-Ip",
                    firstOr(headers, "X-Forwarded-For", get(request, "client_ip")))
      uri      == IF truthy(get(request, "uri")) THEN request.uri ELSE "/"
      parts    == split(uri, "?")
      path     == parts[1]
      queryString == IF Len(parts) >= 2 THEN parts[2] ELSE NULL
      site     == IF truthy(get(request, "host")) THEN request.host ELSE "unknown"
      target   == path \o (IF truthy(queryString) THEN "?" \o queryString ELSE "")
  IN IF arrayIncludes(HOME_IPS, clientIP) THEN ReturnsNull
     ELSE IF Len(HOME_SUBNETS) > 0 /\ clientIP = NULL THEN ThrowsTypeError
     ELSE IF \E k \in 1..Len(HOME_SUBNETS) : inHomeSubnet(HOME_SUBNETS[k], clientIP)
       THEN ReturnsNull
     ELSE IF isBannedIP(clientIP, cache) THEN ReturnsNull
     ELSE IF arrayIncludes(EXCLUDED_SITES, site) THEN ReturnsNull
     ELSE IF somePattern(WORDPRESS_PATTERNS, target) THEN ReturnsNull
     ELSE Returns(
       [timestamp       |-> toDate(logEntry.ts),
        duration        |-> numberOr0(logEntry, "duration"),
        client_ip       |-> clientIP,
        cf_ray          |-> firstOr(headers, "Cf-Ray", NULL),
        site            |-> site,
        method          |-> IF truthy(get(request, "method")) THEN request.method
                            ELSE "GET",
        path            |-> IF path # "" THEN path ELSE "/",
        query_string    |-> IF truthy(queryString) THEN queryString ELSE NULL,
        status          |-> numberOr0(logEntry, "status"),
        response_size   |-> numberOr0(logEntry, "size"),
        content_type    |-> NULL,
        user_agent      |-> firstOr(headers, "User-Agent", NULL),
        referer         |-> firstOr(headers, "Referer", NULL),
        accept_language |-> firstOr(headers, "Accept-Language", NULL),
        headers         |-> headers])

\* /24 of an IPv4 address, /64 of an IPv6 address
subnetOf(client_ip) ==
  IF includes(client_ip, ":")
    THEN LET parts == SelectSeq(split(client_ip, ":"), LAMBDA part : part # "")
         IN IF Len(parts) >= 4 THEN join(sliceTo(parts, 4), ":") \o "::/64"
            ELSE join(parts, ":") \o "::/64"
    ELSE LET parts == split(client_ip, ".")
             part(k) == IF k <= Len(parts) THEN parts[k] ELSE "undefined"
         IN part(1) \o "." \o part(2) \o "." \o part(3) \o ".0/24"

\* the event as enrichEvent leaves it: the parsed fields, the lookups'
\* results, the classification, the signals, headers moved to headers_json
enriched(event, geoData, asnData, classification, browserSignals, botHeaders,
         securityFlags) ==
  [timestamp       |-> event.timestamp,
   duration        |-> event.duration,
   client_ip       |-> event.client_ip,
   cf_ray          |-> event.cf_ray,
   site            |-> event.site,
   method          |-> event.method,
   path            |-> event.path,
   query_string    |-> event.query_string,
   status          |-> event.status,
   response_size   |-> event.response_size,
   content_type    |-> event.content_type,
   user_agent      |-> event.user_agent,
   referer         |-> event.referer,
   accept_language |-> event.accept_language,
   country         |-> geoData.country,
   city            |-> geoData.city,
   latitude        |-> geoData.latitude,
   longitude       |-> geoData.longitude,
   asn             |-> asnData.asn,
   asn_org         |-> asnData.asn_org,
   datacenter_provider |-> asnData.datacenter_provider,
   subnet          |-> subnetOf(event.client_ip),
   is_bot             |-> classification.is_bot,
   bot_classification |-> classification.bot_classification,
   bot_name           |-> classification.bot_name,
   detection_level    |-> classification.detection_level,
   has_sec_fetch_headers |-> browserSignals.has_sec_fetch_headers,
   has_client_hints      |-> browserSignals.has_client_hints,
   is_mobile             |-> browserSignals.is_mobile,
   bot_from_email     |-> botHeaders.bot_from_email,
   openai_host_hash   |-> botHeaders.openai_host_hash,
   has_cf_worker      |-> securityFlags.has_cf_worker,
   cf_worker_domain   |-> securityFlags.cf_worker_domain,
   is_exploit_attempt |-> securityFlags.is_exploit_attempt,
   headers_json       |-> event.headers]

\* classification and signals, once the lookups are in
classifyEnriched(event, geoData, asnData) ==
  enriched(event, geoData, asnData,
           classify([client_ip  |-> event.client_ip,
                     user_agent |-> event.user_agent,
                     headers    |-> event.headers,
                     asn        |-> asnData.asn,
                     datacenter_provider |-> asnData.datacenter_provider]),
           detectBrowserSignals(event.headers),
           extractBotHeaders(event.headers),
           detectSecurityFlags(event.headers, event.path))

enrichEvent(event, geoReader, asReader) ==
  classifyEnriched(event, lookupCity(event.client_ip, geoReader),
                   lookupASN(event.client_ip, asReader))

(***************************************************************************)
(* The environment the runs read: the requests that reach the web server,  *)
(* and the two address databases.  Addresses, agents and paths are chosen  *)
(* so that every way parseLogEntry can end, and several classifier         *)
(* outcomes, occur.                                                        *)
(***************************************************************************)
BrowserUA ==
  "Mozilla/5.0 (X11; Linux x86_64) AppleWebKit/537.36 Chrome/120.0 Safari/537.36"
GPTBotUA ==
  "Mozilla/5.0 AppleWebKit/537.36; compatible; GPTBot/1.2; +https://openai.com/gptbot"

SuspectIP == "203.0.113.9"

RequestKinds ==
  { "browser", "gptbot", "curl", "home", "homev6", "excluded", "wpscan", "noip",
    "cfgscan" }

\* the request object of an access-log line of the given kind
requestOf(kind, ray) ==
  CASE kind = "browser" ->
         [client_ip |-> "172.70.1.1", host |-> "example.org", method |-> "GET",
          uri |-> "/about?ref=home",
          headers |-> Object({ <<"Cf-Connecting-Ip", Arr(<<"198.51.100.7">>)>>,
                              <<"Cf-Ray", Arr(<<ray>>)>>,
                              <<"User-Agent", Arr(<<BrowserUA>>)>>,
                              <<"Accept", Arr(<<"text/html,application/xhtml+xml">>)>>,
                              <<"Sec-Fetch-Site", Arr(<<"none">>)>>,
                              <<"Sec-Ch-Ua", Arr(<<"Chromium;v=120">>)>> })]
    [] kind = "gptbot" ->
         [client_ip |-> "172.70.1.1", host |-> "example.org", method |-> "GET",
          uri |-> "/docs/guide",
          headers |-> Object({ <<"Cf-Connecting-Ip", Arr(<<"20.39.203.102">>)>>,
                              <<"Cf-Ray", Arr(<<ray>>)>>,
                              <<"User-Agent", Arr(<<GPTBotUA>>)>>,
                              <<"From", Arr(<<"gptbot(at)openai.com">>)>> })]
    [] kind = "curl" ->
         [client_ip |-> "172.70.1.1", host |-> "example.org", method |-> "HEAD",
          uri |-> "/",
          headers |-> Object({ <<"X-Forwarded-For", Arr(<<SuspectIP>>)>>,
                              <<"Cf-Ray", Arr(<<ray>>)>>,
                              <<"User-Agent", Arr(<<"curl/8.4.0">>)>> })]
    [] kind = "home" ->
         [client_ip |-> "172.70.1.1", host |-> "example.org", method |-> "GET",
          uri |-> "/admin",
          headers |-> Object({ <<"Cf-Connecting-Ip", Arr(<<"184.82.29.117">>)>>,
                              <<"Cf-Ray", Arr(<<ray>>)>>,
                              <<"User-Agent", Arr(<<BrowserUA>>)>> })]
    [] kind = "homev6" ->
         [client_ip |-> "2405:9800:b911:2816::1", host |-> "example.org",
          uri |-> "/",
          headers |-> Object({ <<"Cf-Ray", Arr(<<ray>>)>>,
                              <<"User-Agent", Arr(<<BrowserUA>>)>> })]
    [] kind = "excluded" ->
         [client_ip |-> "172.70.1.1", host |-> "pm.vivocare.org", method |-> "GET",
          uri |-> "/board",
          headers |-> Object({ <<"Cf-Connecting-Ip", Arr(<<"198.51.100.7">>)>>,
                              <<"Cf-Ray", Arr(<<ray>>)>>,
                              <<"User-Agent", Arr(<<BrowserUA>>)>> })]
    [] kind = "wpscan" ->
         [client_ip |-> "172.70.1.1", host |-> "example.org", method |-> "GET",
          uri |-> "/blog/?author=1",
          headers |-> Object({ <<"Cf-Connecting-Ip", Arr(<<"45.33.32.156">>)>>,
                              <<"Cf-Ray", Arr(<<ray>>)>>,
                              <<"User-Agent", Arr(<<"python-requests/2.31">>)>> })]
    [] kind = "noip" ->
         [host |-> "example.org", method |-> "GET", uri |-> "/health"]
    [] kind = "cfgscan" ->
         [client_ip |-> "172.70.1.1", host |-> "example.org", method |-> "GET",
          uri |-> "/config.json",
          headers |-> Object({ <<"Cf-Connecting-Ip", Arr(<<"45.33.32.156">>)>>,
                              <<"Cf-Ray", Arr(<<ray>>)>>,
                              <<"User-Agent", Arr(<<"curl/8.4.0">>)>> })]

AsnDb ==
  [ip \in {"198.51.100.7", "20.39.203.102", SuspectIP, "45.33.32.156",
            "185.220.101.4"} |->
     CASE ip = "198.51.100.7" ->
            [autonomousSystemNumber |-> "7922",
             autonomousSystemOrganization |-> "COMCAST-7922"]
       [] ip = "20.39.203.102" ->
            [autonomousSystemNumber |-> "8075",
             autonomousSystemOrganization |-> "MICROSOFT-CORP-MSN-AS-BLOCK"]
       [] ip = SuspectIP ->
            [autonomousSystemNumber |-> "64500",
             autonomousSystemOrganization |-> "Example Cloud Hosting LLC"]
       [] ip = "45.33.32.156" ->
            [autonomousSystemNumber |-> "63949",
             autonomousSystemOrganization |-> "Akamai Connected Cloud"]
       [] ip = "185.220.101.4" ->
            [autonomousSystemNumber |-> "9009",
             autonomousSystemOrganization |-> "M247 Europe SRL"]]

CityDb ==
  [ip \in {"198.51.100.7", "20.39.203.102", "186.4.128.9"} |->
     CASE ip = "186.4.128.9" ->
            [isoCode |-> "EC", cityName |-> "Quito",
             latitude |-> "0", longitude |-> "-78.4678"]
       [] ip = "198.51.100.7" ->
            [isoCode |-> "US", cityName |-> "Denver",
             latitude |-> "39.7392", longitude |-> "-104.9903"]
       [] ip = "20.39.203.102" ->
            [isoCode |-> "US"]]

(***************************************************************************)
(* Bounds of the exploration                                               *)
(***************************************************************************)
MaxProcs   == 2      \* processes that may be alive at once
MaxRuns    == 2      \* runs started in a behaviour
MaxAppends == 2      \* times lines are appended to the journal

Procs      == 1..MaxProcs
\* lines appended at once: one line, or a burst filling a whole batch
BurstSizes == {1, BATCH_SIZE}
\* gap between appends, in microseconds: two appends in a millisecond
ClockSteps == {500}
\* the kinds of line that arrive in bursts
BurstKinds == {"gptbot"}
LineKinds  == RequestKinds \cup {"garbage"}

(***************************************************************************)
(* Dates are whole milliseconds counted from the seed row of               *)
(* ingestion_state; NoDate is a null date.                                 *)
(***************************************************************************)
NoDate        == 0 - 1
SeedTimestamp == 0
SeedRow ==
  [last_processed_timestamp |-> SeedTimestamp, last_cf_ray |-> NULL,
   records_processed |-> 0, run |-> 0]

\* Date.now() of a run; the cache time of a fresh process is 0, and the
\* wall clock is far beyond CACHE_TTL
WallClock == {CACHE_TTL}

\* Date.now() when a long-lived process loads the module, the time that
\* passes between two calls of the refresh, and the longest the process
\* is followed, in milliseconds
ProcessStart == 100000
RefreshGaps  == {29999, 30000, 30001}
MaxElapsed   == 130000
MaxCalls     == 4

(***************************************************************************)
(* lib/db.js                                                               *)
(***************************************************************************)
getLastProcessedTimestamp(rows) ==
  IF Len(rows) = 0 THEN NoDate ELSE rows[Len(rows)].last_processed_timestamp

\* an update that writes nothing
updateSkipped(rows, timestamp, cfRay, recordsProcessed, runId) == rows

updateIngestionState(rows, timestamp, cfRay, recordsProcessed, runId) ==
  Append(rows, [last_processed_timestamp |-> timestamp, last_cf_ray |-> cfRay,
                records_processed |-> recordsProcessed, run |-> runId])

\* the rows one committed INSERT adds; each row remembers the run it is from
batchInsert(rows, batch, runId) ==
  rows \o [k \in 1..Len(batch) |-> [run |-> runId, event |-> batch[k]]]

\* a slice that takes one event more than the loop steps over
batchOverlapping(evs, start) ==
  SubSeq(evs, start + 1,
         IF start + BATCH_SIZE + 1 < Len(evs) THEN start + BATCH_SIZE + 1 ELSE Len(evs))

\* events.slice(start, start + BATCH_SIZE), start counted from 0
batchAt(evs, start) ==
  SubSeq(evs, start + 1,
         IF start + BATCH_SIZE < Len(evs) THEN start + BATCH_SIZE ELSE Len(evs))

(***************************************************************************)
(* scripts/ingest-logs.js: refresh, extraction and the loop of ingest()    *)
(***************************************************************************)
\* what `sudo cscli decisions list -o json` does: it fails, prints nothing,
\* prints null when no decision is active, or prints a JSON array.  The
\* command is not part of the repository.  The array is the list of the
\* active decisions, each with the banned address as its `value`, which is
\* what the loop of refreshBannedIPsCache reads; a cscli that groups the
\* decisions by alert prints the address one level down, as the `value` of
\* a decision in the array `decisions` of an alert.  `decisions` below is
\* what JSON.parse(stdout) gives (the code's name).
CommandFails      == [out |-> "throw"]
Blank             == [out |-> "blank"]
NoDecisions       == [out |-> "json", isArray |-> FALSE, decisions |-> {}]
Decisions(addresses) ==
  [out |-> "json", isArray |-> TRUE,
   decisions |-> {[value |-> a] : a \in addresses}]
Alerts(addresses) ==
  [out |-> "json", isArray |-> TRUE,
   decisions |-> {[id |-> a, decisions |-> {[value |-> a]}] : a \in addresses}]
\* the outputs of a command that succeeds while the service bans the addresses
cscliOutput(addresses) ==
  IF addresses = {} THEN { NoDecisions, Decisions({}) }
  ELSE { Decisions(addresses), Alerts(addresses) }

\* the loop over the parsed array: decision.value of each element that has
\* a truthy one
valuesOf(result) ==
  IF ~result.isArray THEN {}
  ELSE {d.value : d \in {e \in result.decisions : has(e, "value") /\ truthy(e.value)}}

\* a refresh whose catch branch lets the failure through to ingest()
refreshRethrows(cache, cacheTime, now, result) ==
  IF now - cacheTime < CACHE_TTL
    THEN [cache |-> cache, cacheTime |-> cacheTime, caught |-> FALSE, threw |-> FALSE,
          queried |-> FALSE]
  ELSE IF result.out = "throw"
    THEN [cache |-> cache, cacheTime |-> cacheTime, caught |-> TRUE, threw |-> TRUE,
          queried |-> TRUE]
  ELSE IF result.out = "blank"
    THEN [cache |-> {}, cacheTime |-> now, caught |-> FALSE, threw |-> FALSE,
          queried |-> TRUE]
  ELSE [cache |-> valuesOf(result),
        cacheTime |-> now, caught |-> FALSE, threw |-> FALSE, queried |-> TRUE]

\* a refresh that stamps the cache time in its catch branch too
refreshStampsFailure(cache, cacheTime, now, result) ==
  IF now - cacheTime < CACHE_TTL
    THEN [cache |-> cache, cacheTime |-> cacheTime, caught |-> FALSE, threw |-> FALSE,
          queried |-> FALSE]
  ELSE IF result.out = "throw"
    THEN [cache |-> cache, cacheTime |-> now, caught |-> TRUE, threw |-> FALSE,
          queried |-> TRUE]
  ELSE IF result.out = "blank"
    THEN [cache |-> {}, cacheTime |-> now, caught |-> FALSE, threw |-> FALSE,
          queried |-> TRUE]
  ELSE [cache |-> valuesOf(result),
        cacheTime |-> now, caught |-> FALSE, threw |-> FALSE, queried |-> TRUE]

\* the module-level cache after the call; caught tells that the catch
\* branch ran, threw that the call itself threw to ingest(), queried that
\* the cscli command was run
refreshBannedIPsCache(cache, cacheTime, now, result) ==
  IF now - cacheTime < CACHE_TTL
    THEN [cache |-> cache, cacheTime |-> cacheTime, caught |-> FALSE, threw |-> FALSE,
          queried |-> FALSE]
  ELSE IF result.out = "throw"
    THEN [cache |-> cache, cacheTime |-> cacheTime, caught |-> TRUE, threw |-> FALSE,
          queried |-> TRUE]
  ELSE IF result.out = "blank"
    THEN [cache |-> {}, cacheTime |-> now, caught |-> FALSE, threw |-> FALSE,
          queried |-> TRUE]
  ELSE [cache |-> valuesOf(result),
        cacheTime |-> now, caught |-> FALSE, threw |-> FALSE, queried |-> TRUE]

\* since.toISOString() as a journalctl that accepts it reads it back, in
\* microseconds
sinceMicros(since) == since * 1000

\* "1 hour ago", in milliseconds
HourMillis == 3600 * 1000

\* the time is on or after one hour before now, both in microseconds
inLastHour(ts, nowMicros) == (nowMicros - ts + 999) \div 1000 <= HourMillis

\* journalctl --since shows the lines on or after the given time; a line
\* that JSON.parse rejects is skipped.  A journalctl that does not accept
\* the text of toISOString() (systemd before RFC 3339 support) exits 1
\* with "Failed to parse timestamp", the pipeline exits 1 and the catch
\* returns no entries.  A line is kept by what tells it from the others:
\* its time, its kind and its Cf-Ray.
extractLogs(since, lines, nowMicros, readsISO) ==
  IF since # NoDate /\ ~readsISO THEN << >>
  ELSE SelectSeq(lines, LAMBDA line :
         /\ IF since # NoDate THEN line.ts >= sinceMicros(since)
                              ELSE inLastHour(line.ts, nowMicros)
         /\ line.kind \in RequestKinds)

\* the object JSON.parse makes of a line
entryObject(line) ==
  [ts |-> line.ts, status |-> 200, size |-> 512,
   request |-> requestOf(line.kind, line.ray)]

cityReader == Reader(CityDb)
asnReader  == AsnReader(AsnDb, DATACENTER_ASN)

\* the two datasets, each loaded or not (its file missing at startup:
\* initGeoIP and initASN then return false and the run goes on), and the
\* pairs <<city reader, ASN reader>> a process may be left with
GeoReaders == { NoReader, cityReader }
AsnReaders == { NoAsnReader(DATACENTER_ASN), asnReader }
Readers    == GeoReaders \X AsnReaders

\* initGeoIP(dbPath) and initASN(dbPath): the reader of the file when the
\* file is there and opens, else the module's variable stays as it was
initGeoIP(reader, opened) == IF opened THEN cityReader ELSE reader
initASN(reader, opened) ==
  IF opened THEN AsnReader(AsnDb, reader.table) ELSE reader

\* the machines the runs are followed on, as << journalctl reads the text
\* of toISOString(), city reader, ASN reader >>: one with both files whose
\* journalctl reads that text, one whose journalctl fails on it, and one
\* with neither file
Machines ==
  { << TRUE, cityReader, asnReader >>,
    << FALSE, cityReader, asnReader >>,
    << TRUE, NoReader, NoAsnReader(DATACENTER_ASN) >> }

\* numbers and a label that a caller gives to addDatacenterASN: a number
\* without an entry and one that has an entry
CustomASNs      == { "7922", "63949" }
CustomProviders == { "custom" }

\* the body of the loop of ingest() up to events.push: parse, then enrich
\* with the readers the process has
enrichParsed(parsed, readers) ==
  IF parsed.tag = "event"
    THEN Returns(enrichEvent(parsed.event, readers[1], readers[2]))
    ELSE parsed

parseAndEnrich(logEntry, cache, readers) ==
  enrichParsed(parseLogEntry(logEntry, cache), readers)

\* Lines of one kind differ in time and Cf-Ray only, and these two pass
\* through parsing and enrichment untouched, so the outcome is computed
\* once per kind, cache and pair of readers, and the line's own values are
\* then put in.
BanCandidates == {SuspectIP}

\* (f @@ g makes the table explicit, so it is computed once)
outcomeOfKind ==
  EmptyObject @@
  [kind \in RequestKinds |->
     EmptyObject @@
     [cache \in SUBSET BanCandidates |->
        EmptyObject @@
        [readers \in Readers |->
           parseAndEnrich(entryObject([ts |-> 0, kind |-> kind, ray |-> ""]),
                          cache, readers)]]]

\* the outcome kept for the line's kind, with the line's time and Cf-Ray
ofLine(outcome, line, headers) ==
  IF outcome.tag # "event" THEN outcome
  ELSE Returns([outcome.event EXCEPT !.timestamp    = toDate(line.ts),
                                     !.cf_ray       = firstOr(headers, "Cf-Ray", NULL),
                                     !.headers_json = headers])

processEntry(line, cache, readers) ==
  ofLine(outcomeOfKind[line.kind][cache][readers], line,
         requestOf(line.kind, line.ray).headers)

\* the locals of ingest() before the loop
loopStart(since) ==
  [events |-> << >>, latestTimestamp |-> since, latestCfRay |-> NULL,
   filteredCount |-> 0]

\* events.push(enrichedEvent) and the tracking of the latest timestamp
pushEvent(acc, enrichedEvent) ==
  LET later == \/ acc.latestTimestamp = NoDate
               \/ enrichedEvent.timestamp > acc.latestTimestamp
  IN [events          |-> Append(acc.events, enrichedEvent),
      latestTimestamp |-> IF later THEN enrichedEvent.timestamp
                          ELSE acc.latestTimestamp,
      latestCfRay     |-> IF later THEN enrichedEvent.cf_ray ELSE acc.latestCfRay,
      filteredCount   |-> acc.filteredCount]

\* a turn that forgets filteredCount++
turnWithoutCount(acc, outcome) ==
  IF outcome.tag # "event" THEN acc ELSE pushEvent(acc, outcome.event)

\* one turn of the loop, given what parsing and enriching the entry gave
turnWith(acc, outcome) ==
  IF outcome.tag = "null" THEN [acc EXCEPT !.filteredCount = @ + 1]
  ELSE IF outcome.tag = "TypeError" THEN acc
  ELSE pushEvent(acc, outcome.event)

loopTurn(acc, line, cache, readers) ==
  turnWith(acc, processEntry(line, cache, readers))

\* the turns for lines[lo..hi] in order, the range split in halves (the
\* test on the first half holds always; it makes the first half be
\* computed before the second is entered)
RECURSIVE loopOver(_, _, _, _, _, _)
RECURSIVE secondHalf(_, _, _, _, _, _)
loopOver(lines, lo, hi, cache, readers, acc) ==
  IF lo > hi THEN acc
  ELSE IF lo = hi THEN loopTurn(acc, lines[lo], cache, readers)
  ELSE secondHalf(lines, (lo + hi) \div 2, hi, cache, readers,
                  loopOver(lines, lo, (lo + hi) \div 2, cache, readers, acc))

secondHalf(lines, mid, hi, cache, readers, firstHalf) ==
  IF Len(firstHalf.events) <= mid
    THEN loopOver(lines, mid + 1, hi, cache, readers, firstHalf)
    ELSE firstHalf

(***************************************************************************)
(* The state machine                                                       *)
(***************************************************************************)
vars ==
  << journal, clock, appends, banned, journalctlReadsISO,
     store, cursorRows, runsStarted, pc, run,
     bannedIPsCache, bannedIPsCacheTime, refreshFailed,
     lastProcessed, logEntries, events, latestTimestamp, latestCfRay,
     filteredCount, i,
     cEvent, cResult, cDone, ePc, eEvent, eGeoReader, eAsnReader,
     rClock, rBanned, rCache, rCacheTime, rCalls, rOutcome, rLastSuccess,
     bJournal, bRuns, bPc, bCurrent, bLast, bClockChange, bEvents, bI,
     bCovered, bCompleted, sPc, sTodo, sStarted >>

\* the variables of ingest() and of what it reads and writes
ingestVars ==
  << journal, clock, appends, banned, journalctlReadsISO,
     store, cursorRows, runsStarted, pc, run,
     bannedIPsCache, bannedIPsCacheTime, refreshFailed,
     lastProcessed, logEntries, events, latestTimestamp, latestCfRay,
     filteredCount, i >>
\* the variables of a single call of classify, of enrichEvent
classifyVars == << cEvent, cResult, cDone >>
enrichVars   == << ePc, eEvent, eGeoReader, eAsnReader >>
refreshVars  ==
  << rClock, rBanned, rCache, rCacheTime, rCalls, rOutcome, rLastSuccess >>
backfillVars ==
  << bJournal, bRuns, bPc, bCurrent, bLast, bClockChange, bEvents, bI,
     bCovered, bCompleted >>
scriptVars   == << sPc, sTodo, sStarted >>
otherVars    == << refreshVars, backfillVars, scriptVars >>
callVars     == << classifyVars, enrichVars, otherVars >>

envVars   == << journal, clock, appends, banned, journalctlReadsISO >>
dbVars    == << store, cursorRows >>
\* what the backfill leaves alone of the ingestion: all but table events
ingestButStore ==
  << journal, clock, appends, banned, journalctlReadsISO,
     cursorRows, runsStarted, pc, run,
     bannedIPsCache, bannedIPsCacheTime, refreshFailed,
     lastProcessed, logEntries, events, latestTimestamp, latestCfRay,
     filteredCount, i >>
cacheVars == << bannedIPsCache, bannedIPsCacheTime, refreshFailed >>
loopVars  == << events, latestTimestamp, latestCfRay, filteredCount >>

\* no run has started: the journal is empty, the tables hold the seed row
ingestIdle ==
  /\ journal = << >>
  /\ clock = 1000
  /\ appends = 0
  /\ banned = {}
  /\ store = << >>
  /\ cursorRows = << SeedRow >>
  /\ runsStarted = 0
  /\ pc = [p \in Procs |-> "idle"]
  /\ run = [p \in Procs |-> 0]
  /\ bannedIPsCache = [p \in Procs |-> {}]
  /\ bannedIPsCacheTime = [p \in Procs |-> 0]
  /\ refreshFailed = [p \in Procs |-> FALSE]
  /\ lastProcessed = [p \in Procs |-> NoDate]
  /\ logEntries = [p \in Procs |-> << >>]
  /\ events = [p \in Procs |-> << >>]
  /\ latestTimestamp = [p \in Procs |-> NoDate]
  /\ latestCfRay = [p \in Procs |-> NULL]
  /\ filteredCount = [p \in Procs |-> 0]
  /\ i = [p \in Procs |-> 0]

\* no call of classify is under way
classifyIdle ==
  /\ cEvent = EmptyObject
  /\ cResult = NoVerdict
  /\ cDone = FALSE

\* no call of enrichEvent is under way
enrichIdle ==
  /\ ePc = "idle"
  /\ eEvent = EmptyObject

\* a machine whose journalctl reads the text of toISOString() and which
\* has both dataset files
machineLoaded ==
  /\ journalctlReadsISO = TRUE
  /\ eGeoReader = cityReader
  /\ eAsnReader = asnReader

\* any machine: journalctl reads that text (RFC 3339 with T and Z) or
\* fails on it, and the dataset files are there or missing
anyMachine ==
  \E machine \in Machines :
    /\ journalctlReadsISO = machine[1]
    /\ eGeoReader = machine[2]
    /\ eAsnReader = machine[3]

\* a process whose module has just been loaded: the cache as declared
refreshIdle ==
  /\ rClock = ProcessStart
  /\ rBanned = {}
  /\ rCache = {}
  /\ rCacheTime = 0
  /\ rCalls = 0
  /\ rOutcome = "none"
  /\ rLastSuccess = NoDate

MaxBackfills == 2      \* executions of the backfill script in a behaviour

\* no backfill has been started, and there is nothing to backfill; the
\* executions are numbered as they are started, each a process of its own
backfillIdle ==
  /\ bJournal = << >>
  /\ bClockChange = [at |-> NoDate, forward |-> FALSE]
  /\ bRuns = 0
  /\ bPc = [e \in 1..MaxBackfills |-> "idle"]
  /\ bCurrent = [e \in 1..MaxBackfills |-> 0]
  /\ bLast = [e \in 1..MaxBackfills |-> 0]
  /\ bEvents = [e \in 1..MaxBackfills |-> << >>]
  /\ bI = [e \in 1..MaxBackfills |-> 0]
  /\ bCovered = [e \in 1..MaxBackfills |-> {}]
  /\ bCompleted = {}

\* the scripts that rewrite the classification columns of table events
Scripts ==
  { "training-agents", "all-bots", "as-monitoring", "hosting-providers",
    "with-expanded-asn", "undetermined", "all" }

\* no script is rewriting the table
scriptIdle ==
  /\ sPc = [script \in Scripts |-> << >>]
  /\ sTodo = [script \in Scripts |-> << >>]
  /\ sStarted = 0

Init ==
  /\ ingestIdle /\ classifyIdle /\ enrichIdle /\ refreshIdle /\ backfillIdle
  /\ scriptIdle
  /\ anyMachine

\* the web server logs n requests of one kind
AppendLog(kind, n, step) ==
  /\ appends < MaxAppends
  /\ appends' = appends + 1
  /\ clock' = clock + step
  /\ journal' = journal \o
       [k \in 1..n |-> [ts |-> clock + step, kind |-> kind,
                        ray |-> "ray" \o ToString(Len(journal) + k)]]
  /\ UNCHANGED << callVars, banned, journalctlReadsISO, dbVars, runsStarted, pc, run,
                  cacheVars,
                  lastProcessed, logEntries, loopVars, i >>

\* the reputation service bans or unbans an address
ChangeBan(ip) ==
  /\ banned' = IF ip \in banned THEN banned \ {ip} ELSE banned \cup {ip}
  /\ UNCHANGED << callVars, journal, clock, appends, journalctlReadsISO, dbVars,
                  runsStarted, pc, run,
                  cacheVars, lastProcessed, logEntries, loopVars, i >>

\* the scheduler starts scripts/ingest-logs.js in a fresh process (the
\* lowest process that is not running): module state as declared, then
\* loadConfig, initDB, initGeoIP, initASN
Start(p) ==
  /\ pc[p] \in {"idle", "done", "failed"}
  /\ \A q \in 1..(p - 1) : pc[q] \notin {"idle", "done", "failed"}
  /\ runsStarted < MaxRuns
  /\ runsStarted' = runsStarted + 1
  /\ run' = [run EXCEPT ![p] = runsStarted + 1]
  /\ pc' = [pc EXCEPT ![p] = "connect"]
  /\ bannedIPsCache' = [bannedIPsCache EXCEPT ![p] = {}]
  /\ bannedIPsCacheTime' = [bannedIPsCacheTime EXCEPT ![p] = 0]
  /\ refreshFailed' = [refreshFailed EXCEPT ![p] = FALSE]
  /\ lastProcessed' = [lastProcessed EXCEPT ![p] = NoDate]
  /\ logEntries' = [logEntries EXCEPT ![p] = << >>]
  /\ events' = [events EXCEPT ![p] = << >>]
  /\ latestTimestamp' = [latestTimestamp EXCEPT ![p] = NoDate]
  /\ latestCfRay' = [latestCfRay EXCEPT ![p] = NULL]
  /\ filteredCount' = [filteredCount EXCEPT ![p] = 0]
  /\ i' = [i EXCEPT ![p] = 0]
  /\ UNCHANGED << callVars, envVars, dbVars >>

\* testConnection(); a false result is thrown and ends the run
TestConnection(p) ==
  /\ pc[p] = "connect"
  /\ \E connected \in BOOLEAN :
       pc' = [pc EXCEPT ![p] = IF connected THEN "refresh" ELSE "failed"]
  /\ UNCHANGED << callVars, envVars, dbVars, runsStarted, run, cacheVars,
                  lastProcessed, logEntries, loopVars, i >>

RefreshBannedIPsCache(p) ==
  /\ pc[p] = "refresh"
  /\ \E now \in WallClock, result \in {CommandFails, Blank} \cup cscliOutput(banned) :
       LET after == refreshBannedIPsCache(bannedIPsCache[p],
                                          bannedIPsCacheTime[p], now, result)
       IN /\ bannedIPsCache' = [bannedIPsCache EXCEPT ![p] = after.cache]
          /\ bannedIPsCacheTime' = [bannedIPsCacheTime EXCEPT ![p] = after.cacheTime]
          /\ refreshFailed' = [refreshFailed EXCEPT ![p] = after.caught]
          /\ pc' = [pc EXCEPT ![p] = IF after.threw THEN "failed" ELSE "resolve"]
  /\ UNCHANGED << callVars, envVars, dbVars, runsStarted, run,
                  lastProcessed, logEntries, loopVars, i >>

\* getLastProcessedTimestamp(); the query may fail
ResolveCursor(p) ==
  /\ pc[p] = "resolve"
  /\ \/ /\ lastProcessed' =
             [lastProcessed EXCEPT ![p] = getLastProcessedTimestamp(cursorRows)]
        /\ pc' = [pc EXCEPT ![p] = "extract"]
     \/ /\ pc' = [pc EXCEPT ![p] = "failed"]
        /\ UNCHANGED lastProcessed
  /\ UNCHANGED << callVars, envVars, dbVars, runsStarted, run, cacheVars,
                  logEntries, loopVars, i >>

\* extractLogs(lastProcessed); with nothing extracted the run closes the
\* database and returns
ExtractLogs(p) ==
  /\ pc[p] = "extract"
  /\ \/ LET entries == extractLogs(lastProcessed[p], journal, clock, journalctlReadsISO)
        IN /\ logEntries' = [logEntries EXCEPT ![p] = entries]
           /\ pc' = [pc EXCEPT ![p] = IF Len(entries) = 0 THEN "close" ELSE "enrich"]
     \/ /\ pc' = [pc EXCEPT ![p] = "failed"]
        /\ UNCHANGED logEntries
  /\ UNCHANGED << callVars, envVars, dbVars, runsStarted, run, cacheVars,
                  lastProcessed, loopVars, i >>

\* a loop that asks the reputation service's live list, not the cache
ParseAndEnrichLive(p) ==
  /\ pc[p] = "enrich"
  /\ LET acc == loopOver(logEntries[p], 1, Len(logEntries[p]), banned,
                         << eGeoReader, eAsnReader >>, loopStart(lastProcessed[p]))
     IN /\ events' = [events EXCEPT ![p] = acc.events]
        /\ latestTimestamp' = [latestTimestamp EXCEPT ![p] = acc.latestTimestamp]
        /\ latestCfRay' = [latestCfRay EXCEPT ![p] = acc.latestCfRay]
        /\ filteredCount' = [filteredCount EXCEPT ![p] = acc.filteredCount]
        /\ pc' = [pc EXCEPT ![p] = IF Len(acc.events) > 0 THEN "persist" ELSE "close"]
  /\ UNCHANGED << callVars, envVars, dbVars, runsStarted, run, cacheVars,
                  lastProcessed, logEntries, i >>

LoopEnds(p, acc) ==
  /\ events' = [events EXCEPT ![p] = acc.events]
  /\ latestTimestamp' = [latestTimestamp EXCEPT ![p] = acc.latestTimestamp]
  /\ latestCfRay' = [latestCfRay EXCEPT ![p] = acc.latestCfRay]
  /\ filteredCount' = [filteredCount EXCEPT ![p] = acc.filteredCount]
  /\ pc' = [pc EXCEPT ![p] = IF Len(acc.events) > 0 THEN "persist" ELSE "close"]

\* the loop over logEntries; with no event left the run closes the
\* database and returns
ParseAndEnrich(p) ==
  /\ pc[p] = "enrich"
  /\ LoopEnds(p, loopOver(logEntries[p], 1, Len(logEntries[p]), bannedIPsCache[p],
                          << eGeoReader, eAsnReader >>, loopStart(lastProcessed[p])))
  /\ UNCHANGED << callVars, envVars, dbVars, runsStarted, run, cacheVars,
                  lastProcessed, logEntries, i >>

\* a batch loop that stops after its first batch
firstBatchInserted(evs, start) == start > 0

\* the batches are all in once the loop variable has passed the events
allBatchesInserted(evs, start) == start >= Len(evs)

\* a batch insert without a transaction: the first row of a failing
\* batch stays
BatchInsertNoRollback(p) ==
  /\ pc[p] = "persist"
  /\ \/ /\ store' = batchInsert(store, batchAt(events[p], i[p]), run[p])
        /\ i' = [i EXCEPT ![p] = i[p] + BATCH_SIZE]
        /\ pc' = [pc EXCEPT ![p] =
                    IF allBatchesInserted(events[p], i[p] + BATCH_SIZE)
                      THEN "advance" ELSE "persist"]
     \/ /\ pc' = [pc EXCEPT ![p] = "failed"]
        /\ store' = batchInsert(store, SubSeq(events[p], i[p] + 1, i[p] + 1), run[p])
        /\ UNCHANGED i
  /\ UNCHANGED << callVars, envVars, cursorRows, runsStarted, run, cacheVars,
                  lastProcessed, logEntries, loopVars >>

\* a batch insert whose failure still writes the cursor (as from a
\* finally block)
BatchInsertAdvancesAnyway(p) ==
  /\ pc[p] = "persist"
  /\ \/ /\ store' = batchInsert(store, batchAt(events[p], i[p]), run[p])
        /\ i' = [i EXCEPT ![p] = i[p] + BATCH_SIZE]
        /\ pc' = [pc EXCEPT ![p] =
                    IF allBatchesInserted(events[p], i[p] + BATCH_SIZE)
                      THEN "advance" ELSE "persist"]
        /\ UNCHANGED cursorRows
     \/ /\ pc' = [pc EXCEPT ![p] = "failed"]
        /\ cursorRows' = updateIngestionState(cursorRows, latestTimestamp[p],
                                              latestCfRay[p], Len(events[p]), run[p])
        /\ UNCHANGED << store, i >>
  /\ UNCHANGED << callVars, envVars, runsStarted, run, cacheVars,
                  lastProcessed, logEntries, loopVars >>

\* one turn of the batch loop: the transaction commits, or rolls back
\* and throws
BatchInsert(p) ==
  /\ pc[p] = "persist"
  /\ \/ /\ store' = batchInsert(store, batchAt(events[p], i[p]), run[p])
        /\ i' = [i EXCEPT ![p] = i[p] + BATCH_SIZE]
        /\ pc' = [pc EXCEPT ![p] =
                    IF allBatchesInserted(events[p], i[p] + BATCH_SIZE)
                      THEN "advance" ELSE "persist"]
     \/ /\ pc' = [pc EXCEPT ![p] = "failed"]
        /\ UNCHANGED << store, i >>
  /\ UNCHANGED << callVars, envVars, cursorRows, runsStarted, run, cacheVars,
                  lastProcessed, logEntries, loopVars >>

\* await updateIngestionState(...); the INSERT may fail
UpdateIngestionState(p) ==
  /\ pc[p] = "advance"
  /\ \/ /\ cursorRows' = updateIngestionState(cursorRows, latestTimestamp[p],
                                              latestCfRay[p], Len(events[p]), run[p])
        /\ pc' = [pc EXCEPT ![p] = "close"]
     \/ /\ pc' = [pc EXCEPT ![p] = "failed"]
        /\ UNCHANGED cursorRows
  /\ UNCHANGED << callVars, envVars, store, runsStarted, run, cacheVars,
                  lastProcessed, logEntries, loopVars, i >>

\* await closeDB(): pool.end() of a pool that was not ended before, after
\* which ingest() returns
CloseDB(p) ==
  /\ pc[p] = "close"
  /\ pc' = [pc EXCEPT ![p] = "done"]
  /\ UNCHANGED << callVars, envVars, dbVars, runsStarted, run, cacheVars,
                  lastProcessed, logEntries, loopVars, i >>

\* requests of every kind arrive one at a time
Next ==
  \/ \E kind \in LineKinds, step \in ClockSteps : AppendLog(kind, 1, step)
  \/ \E ip \in BanCandidates : ChangeBan(ip)
  \/ \E p \in Procs : Start(p)
  \/ \E p \in Procs : TestConnection(p)
  \/ \E p \in Procs : RefreshBannedIPsCache(p)
  \/ \E p \in Procs : ResolveCursor(p)
  \/ \E p \in Procs : ExtractLogs(p)
  \/ \E p \in Procs : ParseAndEnrich(p)
  \/ \E p \in Procs : BatchInsert(p)
  \/ \E p \in Procs : UpdateIngestionState(p)
  \/ \E p \in Procs : CloseDB(p)

Spec == Init /\ [][Next]_vars

\* requests of a few kinds arrive in bursts that fill whole batches
NextBurst ==
  \/ \E kind \in BurstKinds, n \in BurstSizes, step \in ClockSteps :
       AppendLog(kind, n, step)
  \/ \E p \in Procs : Start(p)
  \/ \E p \in Procs : TestConnection(p)
  \/ \E p \in Procs : RefreshBannedIPsCache(p)
  \/ \E p \in Procs : ResolveCursor(p)
  \/ \E p \in Procs : ExtractLogs(p)
  \/ \E p \in Procs : ParseAndEnrich(p)
  \/ \E p \in Procs : BatchInsert(p)
  \/ \E p \in Procs : UpdateIngestionState(p)
  \/ \E p \in Procs : CloseDB(p)

SpecBurst == Init /\ [][NextBurst]_vars

(***************************************************************************)
(* One call of classify(event), on events of every shape: with and without *)
(* user agent, path, headers and session aggregate, from a datacenter or   *)
(* not.  Header values are plain strings, as in testClassifier.            *)
(***************************************************************************)
HeadlessUA ==
  "Mozilla/5.0 (X11; Linux x86_64) AppleWebKit/537.36 HeadlessChrome/120.0.0.0"

\* a property that is absent from the event
Absent == "<absent>"

ClaudeBotUA ==
  "Mozilla/5.0 AppleWebKit/537.36 (compatible; ClaudeBot/1.0; +claudebot@anthropic.com)"

GooglebotUA ==
  "Mozilla/5.0 (compatible; Googlebot/2.1; +http://www.google.com/bot.html)"
\* a browser-like user agent of no more than SHORT_UA_LENGTH characters
ShortBrowserUA == "Mozilla/5.0 Chrome/120.0"

ClassifyAgents ==
  { Absent, "", BrowserUA, ShortBrowserUA, GPTBotUA, ClaudeBotUA, GooglebotUA,
    HeadlessUA, "curl/8.4.0", "UptimeRobot/2.0", "StatusCake" }

ClassifyPaths ==
  { Absent, "/", "/robots.txt", "/docs/guide", "/articles/42",
    "/.well-known/cf-custom-hostname-challenge/7f3a",
    "/wp-admin/.env", "/index.php", "/shell.php", "/config.json",
    "/.git/shell.php", "/static/../.env", "/admin.php/../x",
    "/q?union\nselect" }

\* the headers a request may carry, and the value each has when present
ClassifyHeaderNames == { "Sec-Fetch-Site", "Sec-Ch-Ua", "Accept", "Webdriver" }

headerValueOf(name) ==
  CASE name = "Sec-Fetch-Site" -> "none"
    [] name = "Sec-Fetch-Mode" -> "navigate"
    [] name = "Sec-Fetch-User" -> "?1"
    [] name = "Sec-Ch-Ua"      -> "Chromium;v=120"
    [] name = "Accept"         -> "text/html,application/xhtml+xml"
    [] name = "Webdriver"      -> "true"

headersOf(names) == [name \in names |-> Str(headerValueOf(name))]

\* a request that carries of the fetch-intent family only Sec-Fetch-User
OnlySecFetchUser == headersOf({ "Sec-Fetch-User", "Sec-Ch-Ua", "Accept" })

OnlySecFetchMode == headersOf({ "Sec-Fetch-Mode" })
SecFetchModeAndAccept == headersOf({ "Sec-Fetch-Mode", "Accept" })

ClassifyHeaders ==
  { headersOf(names) : names \in SUBSET ClassifyHeaderNames }
  \cup { OnlySecFetchUser, OnlySecFetchMode, SecFetchModeAndAccept }

ClassifyProviders == { NULL, "azure" }

\* request_count and duration_seconds of the session aggregate: a rate of
\* 0.5 and of 0.6 requests a second, and requests within one second
ClassifySessions ==
  { NoSessionStats, SessionStats(5, 10), SessionStats(6, 10), SessionStats(3, 0) }

\* the event object with its optional properties
eventOf(userAgent, path, headers, withHeaders, provider, sessionStats) ==
  (IF userAgent # Absent THEN "user_agent" :> userAgent ELSE EmptyObject)
  @@ (IF path # Absent THEN "path" :> path ELSE EmptyObject)
  @@ (IF withHeaders THEN "headers" :> headers ELSE EmptyObject)
  @@ (IF sessionStats.present THEN "sessionStats" :> sessionStats ELSE EmptyObject)
  @@ ("datacenter_provider" :> provider)

InitClassify ==
  /\ ingestIdle /\ enrichIdle /\ refreshIdle /\ backfillIdle /\ machineLoaded
  /\ scriptIdle
  /\ \E userAgent \in ClassifyAgents, path \in ClassifyPaths,
        headers \in ClassifyHeaders, withHeaders \in BOOLEAN,
        provider \in ClassifyProviders, sessionStats \in ClassifySessions :
       /\ withHeaders \/ headers = EmptyObject
       /\ cEvent = eventOf(userAgent, path, headers, withHeaders, provider, sessionStats)
  /\ cResult = NoVerdict
  /\ cDone = FALSE

\* const result = await classify(event)
Classify ==
  /\ ~cDone
  /\ cResult' = classify(cEvent)
  /\ cDone' = TRUE
  /\ UNCHANGED << cEvent, ingestVars, enrichVars, otherVars >>

NextClassify == Classify

SpecClassify == InitClassify /\ [][NextClassify]_vars

(***************************************************************************)
(* What the claims speak of                                                *)
(***************************************************************************)
\* the cursor rows a run has appended
rowsOfRun(r) == Cardinality({k \in 1..Len(cursorRows) : cursorRows[k].run = r})

\* the events a run has in the store, in insertion order
storedBy(r) ==
  LET mine == SelectSeq(store, LAMBDA row : row.run = r)
  IN [k \in 1..Len(mine) |-> mine[k].event]

\* the run of p has been through the parse-and-enrich loop
looped(p) ==
  /\ pc[p] \in {"persist", "advance", "close", "done", "failed"}
  /\ Len(logEntries[p]) > 0

\* the run of p has resolved its cursor and not yet advanced it
inCycle(p) == pc[p] \in {"extract", "enrich", "persist", "advance"}

\* FILTER drops the line: parseLogEntry returns null for it
dropped(line, cache) ==
  outcomeOfKind[line.kind][cache][<< eGeoReader, eAsnReader >>].tag = "null"

\* C1: a run that has appended its cursor row has every one of its events
\* in the store; no cursor row is appended before or between the batch
\* commits of the run.
C1_CursorAfterAllBatches ==
  \A p \in Procs :
    run[p] > 0 /\ rowsOfRun(run[p]) > 0 => storedBy(run[p]) = events[p]

\* a run of several batches has appended its cursor row
C1_Witness ==
  \E p \in Procs :
    /\ rowsOfRun(run[p]) = 1 /\ run[p] > 0
    /\ Len(events[p]) > BATCH_SIZE

\* C2: a run that has failed has appended no cursor row, and the step in
\* which a run fails leaves the cursor table as it was.
C2_FailedRunAppendsNothing ==
  /\ [](\A p \in Procs : pc[p] = "failed" => rowsOfRun(run[p]) = 0)
  /\ [][\A p \in Procs :
          pc[p] # "failed" /\ pc'[p] = "failed" => cursorRows' = cursorRows]_vars

\* a run has failed in its batch loop, with events produced
C2_Witness ==
  \E p \in Procs :
    /\ pc[p] = "failed"
    /\ Len(events[p]) > 0 /\ i[p] < Len(events[p])
    /\ rowsOfRun(run[p]) = 0

\* C3: the cursor rows, in created_at order, have non-decreasing
\* last_processed_timestamp.
C3_CursorMonotone ==
  \A k \in 1..(Len(cursorRows) - 1) :
    cursorRows[k].last_processed_timestamp
      <= cursorRows[k + 1].last_processed_timestamp

\* C4: no two runs are both between resolving and advancing the cursor
\* over the same log window.
C4_MutualExclusion ==
  \A p, q \in Procs :
    p # q =>
      ~ /\ inCycle(p) /\ inCycle(q)
        /\ lastProcessed[p] = lastProcessed[q]
        /\ Len(logEntries[p]) > 0
        /\ logEntries[p] = logEntries[q]

\* C5: every event a run has produced has a timestamp strictly greater
\* than the cursor the run resolved.
C5_StrictlyNewer ==
  \A p \in Procs :
    looped(p) =>
      \A k \in 1..Len(events[p]) : events[p][k].timestamp > lastProcessed[p]

\* C6 as stated: every run that completes without failure has appended
\* exactly one cursor row.
C6_OneRowPerCompletedRun ==
  \A p \in Procs : pc[p] = "done" => rowsOfRun(run[p]) = 1

\* C6, amended: a run that completes without failure has appended exactly
\* one cursor row if it produced at least one event, and none otherwise;
\* no run ever has more than one.
C6_OneRowIfEvents ==
  \A p \in Procs :
    /\ run[p] > 0 => rowsOfRun(run[p]) <= 1
    /\ pc[p] = "done" =>
         rowsOfRun(run[p]) = IF Len(events[p]) > 0 THEN 1 ELSE 0

\* a run with events has completed and appended its row
C6_Witness ==
  \E p \in Procs :
    pc[p] = "done" /\ Len(events[p]) > 0 /\ rowsOfRun(run[p]) = 1

withoutDropped(p) ==
  LET kept == SelectSeq(logEntries[p],
                        LAMBDA line : ~dropped(line, bannedIPsCache[p]))
  IN loopOver(kept, 1, Len(kept), bannedIPsCache[p], << eGeoReader, eAsnReader >>,
              loopStart(lastProcessed[p]))

droppedRays(p) ==
  {logEntries[p][k].ray : k \in {n \in 1..Len(logEntries[p]) :
                                   dropped(logEntries[p][n], bannedIPsCache[p])}}

\* C8: the entries FILTER drops are counted in filteredCount, are not among
\* the events of the run nor among its rows in the store, and the
\* timestamp and Cf-Ray the run holds for (and writes to) the cursor are
\* those the entries that were not dropped give.
C8_FilteredNeverPersisted ==
  \A p \in Procs :
    looped(p) =>
      /\ filteredCount[p] = Cardinality(droppedRays(p))
      /\ \A k \in 1..Len(events[p]) : events[p][k].cf_ray \notin droppedRays(p)
      /\ \A k \in 1..Len(store) :
           store[k].run = run[p] => store[k].event.cf_ray \notin droppedRays(p)
      /\ latestTimestamp[p] = withoutDropped(p).latestTimestamp
      /\ latestCfRay[p] = withoutDropped(p).latestCfRay
      /\ \A k \in 1..Len(cursorRows) :
           cursorRows[k].run = run[p] =>
             /\ cursorRows[k].last_processed_timestamp
                  = withoutDropped(p).latestTimestamp
             /\ cursorRows[k].last_cf_ray = withoutDropped(p).latestCfRay

\* a run dropped an entry, kept another, and wrote its cursor row
C8_Witness ==
  \E p \in Procs :
    /\ pc[p] = "done" /\ rowsOfRun(run[p]) = 1
    /\ filteredCount[p] > 0 /\ Len(events[p]) > 0

\* C9: when a batch insert has failed, the run's rows in the store are
\* exactly the events of the batches before it (none of the failed batch,
\* none of a later one), and the run has no cursor row.
C9_BatchAtomicFailStop ==
  \A p \in Procs :
    pc[p] = "failed" /\ i[p] < Len(events[p]) =>
      /\ storedBy(run[p]) = SubSeq(events[p], 1, i[p])
      /\ rowsOfRun(run[p]) = 0

\* the second batch of a run failed after the first had committed
C9_Witness ==
  \E p \in Procs :
    /\ pc[p] = "failed"
    /\ i[p] = BATCH_SIZE /\ Len(events[p]) > BATCH_SIZE
    /\ Len(storedBy(run[p])) = BATCH_SIZE

\* C10: the refresh step always hands over to the cursor resolution, and
\* when the refresh failed the cache and its time are what they were.
C10_RefreshFailureHarmless ==
  [][\A p \in Procs :
       pc[p] = "refresh" /\ pc'[p] # "refresh" =>
         /\ pc'[p] = "resolve"
         /\ refreshFailed'[p] =>
              /\ bannedIPsCache'[p] = bannedIPsCache[p]
              /\ bannedIPsCacheTime'[p] = bannedIPsCacheTime[p]]_vars

\* a run whose refresh failed has gone on to resolve its cursor
C10_Witness ==
  \E p \in Procs : refreshFailed[p] /\ pc[p] \in {"extract", "enrich", "persist"}

(***************************************************************************)
(* One call of enrichEvent, statement by statement.  The event is the      *)
(* object parseLogEntry returned; each step assigns its fields to it.      *)
(***************************************************************************)
EnrichKinds == { "browser", "gptbot", "curl", "cfgscan" }

\* addresses the datasets know, a private one, a malformed one, and an
\* IPv6 address neither database has
EnrichAddresses ==
  DOMAIN AsnDb \cup DOMAIN CityDb
    \cup { "10.0.0.5", "not-an-ip", "2001:db8:85a3:8d3:1319::1" }

\* the log entry of a request of the given kind sent from the address
entryFrom(kind, address) ==
  [ts |-> 1000000, status |-> 200, size |-> 512,
   request |-> [requestOf(kind, "ray0") EXCEPT
                  !.headers = ("Cf-Connecting-Ip" :> Arr(<<address>>)) @@ @]]

\* event.a = x; event.b = y; ...
assign(event, fields) == fields @@ event

\* delete event.headers
deleteHeaders(event) == [f \in DOMAIN event \ {"headers"} |-> event[f]]

GeoFields            == { "country", "city", "latitude", "longitude" }
NetworkFields        == { "asn", "asn_org", "datacenter_provider" }
ClassificationFields == { "is_bot", "bot_classification", "bot_name", "detection_level" }
SignalFields         == { "has_sec_fetch_headers", "has_client_hints", "is_mobile" }
BotHeaderFields      == { "bot_from_email", "openai_host_hash" }
SecurityFields       == { "has_cf_worker", "cf_worker_domain", "is_exploit_attempt" }

InitEnrich ==
  /\ ingestIdle /\ classifyIdle /\ refreshIdle /\ backfillIdle /\ scriptIdle
  /\ journalctlReadsISO = TRUE
  /\ \E kind \in EnrichKinds, address \in EnrichAddresses :
       eEvent = parseLogEntry(entryFrom(kind, address), {}).event
  /\ eGeoReader \in GeoReaders
  /\ eAsnReader \in AsnReaders
  /\ ePc = "geo"

\* The exported functions of geoip.js and asn-lookup.js that write the
\* module state: initGeoIP, closeGeoIP, initASN, closeASN and
\* addDatacenterASN(asn, provider).  Nothing in the functions themselves
\* says when they run; the importer calls them.  enrichEvent runs without
\* yielding from its first statement to `await classify(...)` and from
\* there to its return, so another caller in the process acts before the
\* call, while the call is suspended at that await, or after it returned.
callerMayAct == ePc \in { "geo", "classify", "returned" }

InitGeoIP(opened) ==
  /\ callerMayAct
  /\ eGeoReader' = initGeoIP(eGeoReader, opened)
  /\ UNCHANGED << ePc, eEvent, eAsnReader, ingestVars, classifyVars, otherVars >>

CloseGeoIP ==
  /\ callerMayAct
  /\ eGeoReader' = closeGeoIP(eGeoReader)
  /\ UNCHANGED << ePc, eEvent, eAsnReader, ingestVars, classifyVars, otherVars >>

InitASN(opened) ==
  /\ callerMayAct
  /\ eAsnReader' = initASN(eAsnReader, opened)
  /\ UNCHANGED << ePc, eEvent, eGeoReader, ingestVars, classifyVars, otherVars >>

CloseASN ==
  /\ callerMayAct
  /\ eAsnReader' = closeASN(eAsnReader)
  /\ UNCHANGED << ePc, eEvent, eGeoReader, ingestVars, classifyVars, otherVars >>

AddDatacenterASN(asn, provider) ==
  /\ callerMayAct
  /\ eAsnReader' = addDatacenterASN(eAsnReader, asn, provider)
  /\ UNCHANGED << ePc, eEvent, eGeoReader, ingestVars, classifyVars, otherVars >>

\* const geoData = lookupCity(event.client_ip); event.country = ...
GeoIPLookup ==
  /\ ePc = "geo"
  /\ eEvent' = assign(eEvent, lookupCity(eEvent.client_ip, eGeoReader))
  /\ ePc' = "asn"
  /\ UNCHANGED << eGeoReader, eAsnReader, ingestVars, classifyVars, otherVars >>

\* const asnData = lookupASN(event.client_ip); event.asn = ...
ASNLookup ==
  /\ ePc = "asn"
  /\ eEvent' = assign(eEvent, lookupASN(eEvent.client_ip, eAsnReader))
  /\ ePc' = "subnet"
  /\ UNCHANGED << eGeoReader, eAsnReader, ingestVars, classifyVars, otherVars >>

\* event.subnet = ...
CalculateSubnet ==
  /\ ePc = "subnet"
  /\ eEvent' = assign(eEvent, [subnet |-> subnetOf(eEvent.client_ip)])
  /\ ePc' = "classify"
  /\ UNCHANGED << eGeoReader, eAsnReader, ingestVars, classifyVars, otherVars >>

\* the four fields of the classification that enrichEvent keeps
keptOf(classification) ==
  [is_bot             |-> classification.is_bot,
   bot_classification |-> classification.bot_classification,
   bot_name           |-> classification.bot_name,
   detection_level    |-> classification.detection_level]

\* const classification = await classify({...}); event.is_bot = ...
BotClassification ==
  /\ ePc = "classify"
  /\ eEvent' = assign(eEvent,
                 keptOf(classify([client_ip  |-> eEvent.client_ip,
                                  user_agent |-> eEvent.user_agent,
                                  headers    |-> eEvent.headers,
                                  asn        |-> eEvent.asn,
                                  datacenter_provider |-> eEvent.datacenter_provider])))
  /\ ePc' = "signals"
  /\ UNCHANGED << eGeoReader, eAsnReader, ingestVars, classifyVars, otherVars >>

\* const browserSignals = detectBrowserSignals(event.headers); ...
BrowserSignals ==
  /\ ePc = "signals"
  /\ eEvent' = assign(eEvent, detectBrowserSignals(eEvent.headers))
  /\ ePc' = "botHeaders"
  /\ UNCHANGED << eGeoReader, eAsnReader, ingestVars, classifyVars, otherVars >>

\* const botHeaders = extractBotHeaders(event.headers); ...
BotHeaders ==
  /\ ePc = "botHeaders"
  /\ eEvent' = assign(eEvent, extractBotHeaders(eEvent.headers))
  /\ ePc' = "security"
  /\ UNCHANGED << eGeoReader, eAsnReader, ingestVars, classifyVars, otherVars >>

\* const securityFlags = detectSecurityFlags(event.headers, event.path); ...
SecurityFlags ==
  /\ ePc = "security"
  /\ eEvent' = assign(eEvent, detectSecurityFlags(eEvent.headers, eEvent.path))
  /\ ePc' = "store"
  /\ UNCHANGED << eGeoReader, eAsnReader, ingestVars, classifyVars, otherVars >>

\* event.headers_json = event.headers; delete event.headers; return event
StoreHeaders ==
  /\ ePc = "store"
  /\ eEvent' = deleteHeaders(assign(eEvent, [headers_json |-> eEvent.headers]))
  /\ ePc' = "returned"
  /\ UNCHANGED << eGeoReader, eAsnReader, ingestVars, classifyVars, otherVars >>

NextEnrich ==
  \/ \E opened \in BOOLEAN : InitGeoIP(opened)
  \/ CloseGeoIP
  \/ \E opened \in BOOLEAN : InitASN(opened)
  \/ CloseASN
  \/ \E asn \in CustomASNs, provider \in CustomProviders : AddDatacenterASN(asn, provider)
  \/ GeoIPLookup
  \/ ASNLookup
  \/ CalculateSubnet
  \/ BotClassification
  \/ BrowserSignals
  \/ BotHeaders
  \/ SecurityFlags
  \/ StoreHeaders

SpecEnrich == InitEnrich /\ [][NextEnrich]_vars

\* a call of enrichEvent by itself, in a process where nothing else calls
\* into the two modules while it runs.  The statements run to the return: nothing
\* suspends the call but the await of classify, which always settles
enrichEventSteps ==
  \/ GeoIPLookup
  \/ ASNLookup
  \/ CalculateSubnet
  \/ BotClassification
  \/ BrowserSignals
  \/ BotHeaders
  \/ SecurityFlags
  \/ StoreHeaders

SpecEnrichLive ==
  InitEnrich /\ [][enrichEventSteps]_vars /\ WF_vars(enrichEventSteps)

(***************************************************************************)
(* refreshBannedIPsCache called again and again by one process: between    *)
(* two calls time passes and the reputation service changes its listing.   *)
(***************************************************************************)
InitRefresh ==
  /\ ingestIdle /\ classifyIdle /\ enrichIdle /\ refreshIdle /\ backfillIdle
  /\ scriptIdle
  /\ machineLoaded

\* time passes in the process
Elapse(gap) ==
  /\ rClock + gap <= ProcessStart + MaxElapsed
  /\ rClock' = rClock + gap
  /\ UNCHANGED << rBanned, rCache, rCacheTime, rCalls, rOutcome, rLastSuccess,
                  ingestVars, classifyVars, enrichVars, backfillVars,
                  scriptVars >>

\* the reputation service bans or unbans an address
ChangeListing(ip) ==
  /\ rBanned' = IF ip \in rBanned THEN rBanned \ {ip} ELSE rBanned \cup {ip}
  /\ UNCHANGED << rClock, rCache, rCacheTime, rCalls, rOutcome, rLastSuccess,
                  ingestVars, classifyVars, enrichVars, backfillVars,
                  scriptVars >>

\* one call: await refreshBannedIPsCache()
CallRefresh(result) ==
  /\ rCalls < MaxCalls
  /\ LET after == refreshBannedIPsCache(rCache, rCacheTime, rClock, result)
     IN /\ rCache' = after.cache
        /\ rCacheTime' = after.cacheTime
        /\ rOutcome' = IF ~after.queried THEN "fresh"
                       ELSE IF after.caught THEN "failed" ELSE "stored"
        /\ rLastSuccess' = IF after.queried /\ ~after.caught THEN rClock
                           ELSE rLastSuccess
  /\ rCalls' = rCalls + 1
  /\ UNCHANGED << rClock, rBanned, ingestVars, classifyVars, enrichVars,
                  backfillVars, scriptVars >>

NextRefresh ==
  \/ \E gap \in RefreshGaps : Elapse(gap)
  \/ \E ip \in {SuspectIP} : ChangeListing(ip)
  \/ CallRefresh(CommandFails)
  \/ CallRefresh(Blank)
  \/ \E result \in cscliOutput(rBanned) : CallRefresh(result)

SpecRefresh == InitRefresh /\ [][NextRefresh]_vars

(***************************************************************************)
(* scripts/backfill-historical-logs.js                                     *)
(*                                                                         *)
(* Dates are whole milliseconds counted from 00:00:00.000Z of day 0.  A    *)
(* journal line carries its time as milliseconds and the microseconds      *)
(* beyond them; an event keeps of a line what tells it from the others:    *)
(* its timestamp, its Cf-Ray and its site.                                 *)
(***************************************************************************)
MaxDays      == 2      \* days of history
Days         == 0..(MaxDays - 1)
DayMillis    == 86400000

INCLUDED_SITES ==
  { "veteransmemorycare.org", "www.veteransmemorycare.org",
    "memorycareguide.org", "www.memorycareguide.org",
    "thaibelle.com", "www.thaibelle.com",
    "modelzero.com", "www.modelzero.com" }

\* new Date(dateStr + 'T00:00:00.000Z') and new Date(dateStr + 'T23:59:59.999Z')
startDateOf(day) == day * DayMillis
endDateOf(day)   == day * DayMillis + (DayMillis - 1)

\* currentDate.toISOString().split('T')[0]: the UTC day the time is on
dateOf(time) == time \div DayMillis

\* The local clock of the machine (TZ): it keeps its offset through the
\* days of the journal, or summer time begins or ends in them.  The two
\* changes here are made at 01:00:00Z of day 0, as in Europe.
NoClockChange == [at |-> NoDate, forward |-> FALSE]
ClockChanges ==
  { NoClockChange,
    [at |-> HourMillis, forward |-> TRUE],
    [at |-> HourMillis, forward |-> FALSE] }

\* currentDate.setDate(currentDate.getDate() + 1): the same local time on
\* the next local day, which is 24 hours later, 23 when the clock is put
\* forward in between, 25 when it is put back.  A local time that the
\* change skips or repeats is read with the offset before the change.
nextLocalDay(time, change) ==
  IF change.at = NoDate \/ change.at <= time THEN time + DayMillis
  ELSE IF change.forward
    THEN IF change.at <= time + DayMillis - HourMillis
           THEN time + DayMillis - HourMillis
           ELSE time + DayMillis
  ELSE IF change.at <= time + DayMillis
    THEN time + DayMillis + HourMillis
    ELSE time + DayMillis

\* what the web server logged on a day: a request of an included site in
\* the morning, a request of another site, a request that carries neither
\* Cf-Connecting-Ip nor remote_ip, BATCH_SIZE requests at noon, a request
\* at 23:59:59.999 sharp and one half a millisecond later
Slots == {"morning", "other", "noip", "noon", "last", "late"}
lineAt(day, slot, millis, micros, site, n) ==
  [ms |-> startDateOf(day) + millis, us |-> micros, site |-> site,
   ip |-> IF slot = "noip" THEN NULL ELSE SuspectIP,
   ray |-> "d" \o ToString(day) \o slot \o ToString(n)]
linesOf(day, slots) ==
  (IF "morning" \in slots
     THEN << lineAt(day, "morning", 36000000, 0, "modelzero.com", 1) >> ELSE << >>)
  \o (IF "other" \in slots
        THEN << lineAt(day, "other", 39600000, 0, "example.org", 1) >> ELSE << >>)
  \o (IF "noip" \in slots
        THEN << lineAt(day, "noip", 41400000, 0, "modelzero.com", 1) >> ELSE << >>)
  \o (IF "noon" \in slots
        THEN [n \in 1..BATCH_SIZE |->
                lineAt(day, "noon", 43200000, 0, "www.modelzero.com", n)]
        ELSE << >>)
  \o (IF "last" \in slots
        THEN << lineAt(day, "last", DayMillis - 1, 0, "modelzero.com", 1) >> ELSE << >>)
  \o (IF "late" \in slots
        THEN << lineAt(day, "late", DayMillis - 1, 500, "modelzero.com", 1) >> ELSE << >>)

RECURSIVE journalUpTo(_, _)
journalUpTo(day, slotsOf) ==
  IF day < 0 THEN << >>
  ELSE journalUpTo(day - 1, slotsOf) \o linesOf(day, slotsOf[day])

\* the journals the executions are followed on: any lines on day 0, and
\* on day 1 a request in the morning, one in the last millisecond, both
\* or none
Journals ==
  { journalUpTo(MaxDays - 1, slotsOf) :
      slotsOf \in { f \in [Days -> SUBSET Slots] :
                      \A day \in Days :
                        day > 0 => f[day] \subseteq {"morning", "last"} } }

\* journalctl -u caddy --since start --until end: the lines on or after
\* start and on or before end, both given to the millisecond; then the
\* loop of extractLogsForDateRange, which keeps the included sites
extractLogsForDateRange(lines, startDate, endDate) ==
  LET shown == SelectSeq(lines, LAMBDA l :
                 /\ l.ms >= startDate
                 /\ l.ms < endDate \/ (l.ms = endDate /\ l.us = 0))
      kept  == SelectSeq(shown, LAMBDA l : l.site \in INCLUDED_SITES)
  IN [k \in 1..Len(kept) |->
        [timestamp |-> kept[k].ms, cf_ray |-> kept[k].ray, site |-> kept[k].site,
         client_ip |-> kept[k].ip]]

\* the loop of enrichEvents reads event.client_ip.includes(':') of every
\* event, which throws a TypeError on an event without an address
enrichEventsThrows(evs) == \E k \in 1..Len(evs) : evs[k].client_ip = NULL

\* SELECT COUNT(*) FROM events WHERE timestamp >= $1 AND timestamp < $2
checkExistingData(rows, startDate, endDate) ==
  Cardinality({k \in 1..Len(rows) :
                 /\ rows[k].event.timestamp >= startDate
                 /\ rows[k].event.timestamp < endDate})

\* what one committed INSERT of batchInsertEvents adds to table events;
\* the rows are of no run of the ingestion
batchInsertEvents(rows, batch) ==
  rows \o [k \in 1..Len(batch) |-> [run |-> 0, event |-> batch[k]]]

\* the day processDay of an execution is called for, or was called for last
bDay(e) == dateOf(bCurrent[e])

InitBackfill ==
  /\ ingestIdle /\ classifyIdle /\ enrichIdle /\ refreshIdle /\ machineLoaded
  /\ scriptIdle
  /\ bJournal \in Journals
  /\ bClockChange \in ClockChanges
  /\ bRuns = 0
  /\ bPc = [e \in 1..MaxBackfills |-> "idle"]
  /\ bCurrent = [e \in 1..MaxBackfills |-> 0]
  /\ bLast = [e \in 1..MaxBackfills |-> 0]
  /\ bEvents = [e \in 1..MaxBackfills |-> << >>]
  /\ bI = [e \in 1..MaxBackfills |-> 0]
  /\ bCovered = [e \in 1..MaxBackfills |-> {}]
  /\ bCompleted = {}

\* node scripts/backfill-historical-logs.js <start-date> <end-date>:
\* currentDate = new Date(startDateStr), midnight UTC of the first day.
\* The script takes no lock: it is started whatever the executions
\* started before it are doing.
StartBackfill(first, last) ==
  /\ bRuns < MaxBackfills
  /\ first <= last
  /\ bRuns' = bRuns + 1
  /\ bCurrent' = [bCurrent EXCEPT ![bRuns + 1] = startDateOf(first)]
  /\ bLast' = [bLast EXCEPT ![bRuns + 1] = last]
  /\ bPc' = [bPc EXCEPT ![bRuns + 1] = "day"]
  /\ UNCHANGED << bJournal, bClockChange, bEvents, bI, bCovered, bCompleted,
                  ingestVars, classifyVars, enrichVars, refreshVars,
                  scriptVars >>

\* One turn of the while loop of backfill() up to the loop of processDay.
\* The SELECT COUNT of checkExistingData rejects (counted is false) and
\* the process exits 1; or the day is skipped when the query counts a
\* row, found empty when the extraction gives no event or the journalctl
\* command fails (extracted is false); or enrichEvents throws and the
\* process exits 1; or the events are there to be inserted.  After a day
\* that is skipped or empty the loop moves currentDate on.
ProcessDay(e, counted, extracted) ==
  /\ bPc[e] = "day"
  /\ bCurrent[e] <= startDateOf(bLast[e])
  /\ LET startDate == startDateOf(bDay(e))
         endDate   == endDateOf(bDay(e))
         evs       == IF extracted
                        THEN extractLogsForDateRange(bJournal, startDate, endDate)
                        ELSE << >>
         nextDay   == nextLocalDay(bCurrent[e], bClockChange)
     IN IF ~counted
          THEN /\ extracted
               /\ bPc' = [bPc EXCEPT ![e] = "failed"]
               /\ UNCHANGED << bCurrent, bCovered, bEvents, bI >>
        ELSE IF checkExistingData(store, startDate, endDate) > 0
          THEN /\ extracted
               /\ bCurrent' = [bCurrent EXCEPT ![e] = nextDay]
               /\ bCovered' = [bCovered EXCEPT ![e] = @ \cup {bDay(e)}]
               /\ UNCHANGED << bPc, bEvents, bI >>
        ELSE IF Len(evs) = 0
          THEN /\ bCurrent' = [bCurrent EXCEPT ![e] = nextDay]
               /\ bCovered' = [bCovered EXCEPT ![e] =
                                 IF extracted THEN @ \cup {bDay(e)} ELSE @]
               /\ UNCHANGED << bPc, bEvents, bI >>
        ELSE IF enrichEventsThrows(evs)
          THEN /\ bPc' = [bPc EXCEPT ![e] = "failed"]
               /\ UNCHANGED << bCurrent, bCovered, bEvents, bI >>
        ELSE /\ bEvents' = [bEvents EXCEPT ![e] = evs]
             /\ bI' = [bI EXCEPT ![e] = 0]
             /\ bPc' = [bPc EXCEPT ![e] = "insert"]
             /\ UNCHANGED << bCurrent, bCovered >>
  /\ UNCHANGED << bJournal, bRuns, bLast, bClockChange, bCompleted,
                  ingestVars, classifyVars, enrichVars, refreshVars,
                  scriptVars >>

\* one turn of the loop of processDay: the batch is committed, or
\* batchInsertEvents rolls back and throws, which ends the process; after
\* the last batch processDay returns and the loop moves currentDate on
InsertBatch(e, committed) ==
  /\ bPc[e] = "insert"
  /\ IF committed
       THEN /\ store' = batchInsertEvents(store, batchAt(bEvents[e], bI[e]))
            /\ bI' = [bI EXCEPT ![e] = @ + BATCH_SIZE]
            /\ IF bI[e] + BATCH_SIZE < Len(bEvents[e])
                 THEN UNCHANGED << bPc, bCurrent, bCovered >>
                 ELSE /\ bPc' = [bPc EXCEPT ![e] = "day"]
                      /\ bCurrent' = [bCurrent EXCEPT ![e] =
                                         nextLocalDay(@, bClockChange)]
                      /\ bCovered' = [bCovered EXCEPT ![e] = @ \cup {bDay(e)}]
       ELSE /\ bPc' = [bPc EXCEPT ![e] = "failed"]
            /\ UNCHANGED << store, bI, bCurrent, bCovered >>
  /\ UNCHANGED << bJournal, bRuns, bLast, bClockChange, bEvents, bCompleted,
                  ingestButStore, classifyVars, enrichVars, refreshVars,
                  scriptVars >>

\* currentDate is past endDate, which is midnight UTC of the last day: the
\* pool is closed and the summary printed
FinishBackfill(e) ==
  /\ bPc[e] = "day"
  /\ bCurrent[e] > startDateOf(bLast[e])
  /\ bPc' = [bPc EXCEPT ![e] = "done"]
  /\ bCompleted' = bCompleted \cup bCovered[e]
  /\ UNCHANGED << bJournal, bRuns, bCurrent, bLast, bClockChange, bEvents, bI,
                  bCovered, ingestVars, classifyVars, enrichVars, refreshVars,
                  scriptVars >>

NextBackfill ==
  \/ \E first, last \in Days : StartBackfill(first, last)
  \/ \E e \in 1..MaxBackfills : \E counted, extracted \in BOOLEAN :
       ProcessDay(e, counted, extracted)
  \/ \E e \in 1..MaxBackfills : \E committed \in BOOLEAN : InsertBatch(e, committed)
  \/ \E e \in 1..MaxBackfills : FinishBackfill(e)

SpecBackfill == InitBackfill /\ [][NextBackfill]_vars

(***************************************************************************)
(* The scripts that rewrite the classification columns of table events     *)
(* through query(sql, params) of lib/db.js:                                *)
(*   scripts/reclassify-training-agents.js, reclassify-all-bots.js,        *)
(*   reclassify-as-monitoring.js, reclassify-hosting-providers.js,         *)
(*   reclassify-with-expanded-asn.js, and reclassifyUndetermined and       *)
(*   reclassifyAll (src/unnamed/part_005, part_006).                       *)
(* Each is a process of its own.  Every awaited query is a statement and a *)
(* transaction of its own, so the other clients of the table act between   *)
(* any two of them; a query that rejects is caught and the process exits 1 *)
(* with the statements before it committed.  A row's id is its place in    *)
(* the table.  The specifications of the ingestion follow runs on a table  *)
(* that no script is rewriting meanwhile.                                  *)
(***************************************************************************)
\* the scripts that close the pool and return when their SELECT finds no row
ReturnsWhenEmpty == { "training-agents", "hosting-providers", "undetermined" }

MaxScripts == 2        \* executions of scripts in a behaviour
MaxRows    == 4        \* rows of the table

\* NOW() of a statement, in the milliseconds of the rows' timestamps: a
\* day and eight days after the seed
ScriptClock == { DayMillis, 8 * DayMillis }

\* column ILIKE '%lit%'; a NULL column matches nothing
ilike(sv, lit) == sv # NULL /\ includes(toLowerCase(sv), toLowerCase(lit))

\* ---- the UPDATE statements ----
\* UPDATE events SET <columns> WHERE id = ANY(ids)
ById(ids, columns) == [where |-> "id", ids |-> ids, columns |-> columns]
\* the UPDATE of a candidate of reclassify-training-agents.js
OfAddress(ip, provider) == [where |-> "address", ip |-> ip, provider |-> provider]
\* a statement that carries no parameter of the table's rows
Fixed(name) == [where |-> name]

\* SET <columns> on the rows WHERE selects
setColumns(row, columns) == [row EXCEPT !.event = columns @@ @]
updateWhere(rows, ids, columns) ==
  [k \in 1..Len(rows) |-> IF k \in ids THEN setColumns(rows[k], columns) ELSE rows[k]]

\* WHERE bot_classification = 'human'
humanRows(rows) ==
  { k \in 1..Len(rows) : rows[k].event.bot_classification = "human" }

\* MAX(timestamp) - MIN(timestamp) of the rows, in milliseconds
spanOf(rows, ids) ==
  LET newest == CHOOSE k \in ids :
                  \A j \in ids : rows[j].event.timestamp <= rows[k].event.timestamp
      oldest == CHOOSE k \in ids :
                  \A j \in ids : rows[k].event.timestamp <= rows[j].event.timestamp
  IN rows[newest].event.timestamp - rows[oldest].event.timestamp

\* GROUP BY client_ip over the rows, HAVING the test; the addresses kept
addressesHaving(rows, ids, having(_)) ==
  { ip \in { rows[k].event.client_ip : k \in ids } :
      having({ k \in ids : rows[k].event.client_ip = ip }) }

\* UPDATE events e ... FROM <addresses> WHERE e.client_ip = <address>
\* AND e.bot_classification = 'human'
humanRowsOf(rows, addresses) ==
  { k \in humanRows(rows) : rows[k].event.client_ip \in addresses }

CheapHosts ==
  { "CHEAPY-HOST", "Datacamp Limited", "Servers Tech", "Clouvider",
    "UK-2 Limited", "GSL Networks" }

\* const NEW_HOSTING_ASNS of reclassify-hosting-providers.js
NEW_HOSTING_ASNS ==
  { "9009", "46261", "212512", "11878", "49505", "50340", "26548", "64267" }

Reclassified(category, name, level) ==
  [bot_classification |-> category, bot_name |-> name, detection_level |-> level]

\* pattern 6 of reclassify-all-bots.js: the groups (client_ip,
\* datacenter_provider) of three human rows and more; a row whose address
\* is in two such groups is named after either
datacenterBursts(rows) ==
  LET ofDatacenter == { k \in humanRows(rows) : rows[k].event.datacenter_provider # NULL }
  IN { g \in { << rows[k].event.client_ip, rows[k].event.datacenter_provider >>
                 : k \in ofDatacenter } :
         Cardinality({ k \in ofDatacenter :
                         /\ rows[k].event.client_ip = g[1]
                         /\ rows[k].event.datacenter_provider = g[2] }) >= 3 }

datacenterCleanup(rows) ==
  LET groups == datacenterBursts(rows)
      ids    == humanRowsOf(rows, { g[1] : g \in groups })
      named  == { f \in [ids -> groups] : \A k \in ids : f[k][1] = rows[k].event.client_ip }
  IN { [k \in 1..Len(rows) |->
          IF k \in ids
            THEN setColumns(rows[k],
                   Reclassified("stealth_ai", toUpperCase(f[k][2]) \o "-Stealth", "2"))
            ELSE rows[k]] : f \in named }

\* the table after the statement, run at the given NOW(); a set, of one
\* table but for pattern 6
applyStatement(rows, stmt, now) ==
  LET human == humanRows(rows)
  IN CASE stmt.where = "id" ->
            { updateWhere(rows, stmt.ids, stmt.columns) }
       [] stmt.where = "address" ->
            { updateWhere(rows,
                { k \in human :
                    /\ rows[k].event.client_ip = stmt.ip
                    /\ rows[k].event.datacenter_provider # NULL
                    /\ rows[k].event.has_sec_fetch_headers = FALSE },
                Reclassified("ai_training",
                             toUpperCase(stmt.provider) \o "-Training-Agent", "3")) }
       [] stmt.where = "hosting" ->
            { updateWhere(rows,
                { k \in 1..Len(rows) :
                    /\ rows[k].event.asn \in NEW_HOSTING_ASNS
                    /\ rows[k].event.datacenter_provider \in { NULL, "" } },
                [datacenter_provider |-> "hosting"]) }
       [] stmt.where = "cheap" ->
            { updateWhere(rows,
                { k \in human : \E lit \in CheapHosts : ilike(rows[k].event.asn_org, lit) },
                Reclassified("stealth_ai", "Cheap-Hosting-Scraper", "2")) }
       [] stmt.where = "burst" ->
            { updateWhere(rows,
                humanRowsOf(rows,
                  addressesHaving(rows,
                    { k \in human : rows[k].event.timestamp > now - 7 * DayMillis },
                    LAMBDA group :
                      /\ Cardinality(group) >= 5
                      /\ spanOf(rows, group) > 0
                      /\ Cardinality(group) * 5000 > spanOf(rows, group))),
                Reclassified("stealth_ai", "Burst-Pattern-Bot", "3")) }
       [] stmt.where = "warp" ->
            { updateWhere(rows,
                humanRowsOf(rows,
                  addressesHaving(rows,
                    { k \in human :
                        /\ rows[k].event.asn_org = "Cloudflare, Inc."
                        /\ startsWith(rows[k].event.client_ip, "2a06:98c0:") },
                    LAMBDA group :
                      /\ Cardinality(group) < 20
                      /\ spanOf(rows, group) < 3600 * 1000)),
                Reclassified("stealth_ai", "Cloudflare-WARP-Bot", "2")) }
       [] stmt.where = "tencent" ->
            { updateWhere(rows,
                { k \in human : ilike(rows[k].event.asn_org, "Tencent") },
                Reclassified("stealth_ai", "Tencent-Cloud-Bot", "2")) }
       [] stmt.where = "corp" ->
            { updateWhere(rows,
                humanRowsOf(rows,
                  addressesHaving(rows,
                    { k \in human :
                        \/ ilike(rows[k].event.asn_org, "Kaspersky")
                        \/ rows[k].event.asn_org \in { "PJSC MegaFon", "Rostelecom" } },
                    LAMBDA group :
                      /\ Cardinality(group) >= 5
                      /\ spanOf(rows, group) < 300 * 1000)),
                Reclassified("web_crawler", "Corporate-Proxy-Crawler", "2")) }
       [] stmt.where = "datacenter" -> datacenterCleanup(rows)

\* ---- what a script's SELECT gives, and the statements that follow ----
\* ORDER BY <rank> DESC: the orders the query may give the ids in, those
\* of equal rank in any order
RECURSIVE descending(_, _)
descending(ids, rank) ==
  IF ids = {} THEN { << >> }
  ELSE UNION { { << first >> \o rest : rest \in descending(ids \ {first}, rank) } :
               first \in { a \in ids : \A b \in ids : rank[b] <= rank[a] } }

\* ORDER BY timestamp DESC
byTimestampDesc(rows, ids) ==
  descending(ids, [k \in ids |-> rows[k].event.timestamp])

\* the statements of each row in turn, one sequence
RECURSIVE concat(_, _)
concat(seqs, from) ==
  IF from > Len(seqs) THEN << >> ELSE seqs[from] \o concat(seqs, from + 1)
statementsIn(seq, from, statementsOfRow(_)) ==
  concat([n \in 1..Len(seq) |-> statementsOfRow(seq[n])], from)

\* the headers object the scripts build from the two flags of a row
flagHeaders(e) ==
  (IF e.has_sec_fetch_headers = TRUE
     THEN "Sec-Fetch-Site" :> Str("none") ELSE EmptyObject)
  @@ (IF e.has_client_hints = TRUE
        THEN "Sec-Ch-Ua" :> Str("\"Chrome\";v=\"120\"") ELSE EmptyObject)

\* the same with the fuller family of reclassify-hosting-providers.js and
\* reclassifyUndetermined
fullFlagHeaders(e) ==
  (IF e.has_sec_fetch_headers = TRUE
     THEN Object({ << "Sec-Fetch-Site", Str("none") >>,
                   << "Sec-Fetch-Mode", Str("navigate") >>,
                   << "Sec-Fetch-Dest", Str("document") >> })
     ELSE EmptyObject)
  @@ (IF e.has_client_hints = TRUE
        THEN Object({ << "Sec-Ch-Ua", Str("\"Chrome\";v=\"120\"") >>,
                      << "Sec-Ch-Ua-Mobile", Str("?0") >> })
        ELSE EmptyObject)

\* classify({ client_ip, user_agent, path, headers, datacenter_provider })
reclassify(e, headers, provider) ==
  classify([client_ip |-> e.client_ip, user_agent |-> e.user_agent,
            path |-> e.path, headers |-> headers,
            datacenter_provider |-> provider])

\* reclassify-training-agents.js: SELECT DISTINCT client_ip,
\* datacenter_provider, user_agent ... the WHERE of findQuery
trainingAgentPattern(e) ==
  /\ e.datacenter_provider # NULL
  /\ e.bot_classification = "human"
  /\ \/ /\ ilike(e.user_agent, "Mozilla")
        /\ \/ ilike(e.user_agent, "Chrome")
           \/ ilike(e.user_agent, "Safari")
           \/ ilike(e.user_agent, "Firefox")
        /\ ~ilike(e.user_agent, "bot")
        /\ ~ilike(e.user_agent, "crawler")
        /\ ~ilike(e.user_agent, "spider")
        /\ e.has_sec_fetch_headers = FALSE
     \/ e.user_agent = NULL \/ e.user_agent = ""

findTrainingAgents(rows) ==
  { << rows[k].event.client_ip, rows[k].event.datacenter_provider,
       rows[k].event.user_agent >> :
      k \in { j \in 1..Len(rows) : trainingAgentPattern(rows[j].event) } }

\* ORDER BY client_ip: the addresses of the tables below as inet orders them
AddressesAscending ==
  << "20.39.203.102", "45.33.32.156", "185.220.101.4", "198.51.100.7", "203.0.113.9" >>
placeOf(ip) == CHOOSE n \in 1..Len(AddressesAscending) : AddressesAscending[n] = ip

trainingAgentStatements(rows) ==
  { [n \in 1..Len(seq) |-> OfAddress(seq[n][1], seq[n][2])] :
      seq \in descending(findTrainingAgents(rows),
                         [c \in findTrainingAgents(rows) |-> 0 - placeOf(c[1])]) }

\* reclassify-all-bots.js: its six UPDATE statements, whatever the table holds
allBotsStatements ==
  << Fixed("cheap"), Fixed("burst"), Fixed("warp"), Fixed("tencent"),
     Fixed("corp"), Fixed("datacenter") >>

\* reclassify-as-monitoring.js: the groups of undetermined rows, the most
\* frequent first; a group that classify now calls a monitoring service
\* has its rows updated, in that one column
monitoringGroups(rows) ==
  LET ids == { k \in 1..Len(rows) :
                 /\ rows[k].event.bot_classification = "bot_undetermined"
                 /\ rows[k].event.client_ip # "184.82.29.117" }
      keyOf(k) == << rows[k].event.client_ip, rows[k].event.user_agent,
                     rows[k].event.path, rows[k].event.datacenter_provider,
                     rows[k].event.has_sec_fetch_headers,
                     rows[k].event.has_client_hints >>
  IN { { j \in ids : keyOf(j) = keyOf(k) } : k \in ids }

monitoringStatements(rows) ==
  { statementsIn(seq, 1,
      LAMBDA group :
        LET e == rows[CHOOSE k \in group : TRUE].event
        IN IF reclassify(e, flagHeaders(e), e.datacenter_provider).bot_classification
                = "monitoring_service"
             THEN << ById(group, [bot_classification |-> "monitoring_service"]) >>
             ELSE << >>) :
      seq \in descending(monitoringGroups(rows),
                         [g \in monitoringGroups(rows) |-> Cardinality(g)]) }

\* reclassify-hosting-providers.js: the rows of the new hosting ASNs; the
\* provider is set on all of them at once, then each row that was human is
\* classified again as from a hosting provider
hostingRows(rows) == { k \in 1..Len(rows) : rows[k].event.asn \in NEW_HOSTING_ASNS }

hostingStatements(rows) ==
  { << Fixed("hosting") >> \o
    statementsIn(seq, 1,
      LAMBDA k :
        LET e == rows[k].event
            newClassification ==
              reclassify(e, fullFlagHeaders(e), "hosting").bot_classification
        IN IF e.bot_classification = "human" /\ newClassification # "human"
             THEN << ById({k}, [bot_classification |-> newClassification,
                                is_bot |-> TRUE]) >>
             ELSE << >>) :
      seq \in byTimestampDesc(rows, hostingRows(rows)) }

\* reclassify-with-expanded-asn.js: the rows without a provider whose
\* address the script's own reader now places in a datacenter
expandedASNStatements(rows, reader) ==
  { statementsIn(seq, 1,
      LAMBDA k :
        LET e == rows[k].event
            provider == lookupASN(e.client_ip, reader).datacenter_provider
            classification == reclassify(e, flagHeaders(e), provider)
        IN IF ~truthy(provider) THEN << >>
           ELSE << ById({k}, [datacenter_provider |-> provider]) >> \o
                (IF /\ e.bot_classification \in { "human", "bot_undetermined" }
                    /\ classification.bot_classification # e.bot_classification
                   THEN << ById({k},
                             [bot_classification |-> classification.bot_classification,
                              bot_name        |-> classification.bot_name,
                              detection_level |-> classification.detection_level,
                              is_bot          |-> classification.is_bot]) >>
                   ELSE << >>)) :
      seq \in byTimestampDesc(rows,
                { k \in 1..Len(rows) :
                    /\ rows[k].event.datacenter_provider = NULL
                    /\ rows[k].event.asn # NULL }) }

\* reclassifyUndetermined (part_005)
undeterminedRows(rows) ==
  { k \in 1..Len(rows) :
      /\ rows[k].event.bot_classification = "bot_undetermined"
      /\ rows[k].event.client_ip \notin { "184.82.29.117", "123.25.101.101" } }

undeterminedStatements(rows) ==
  { statementsIn(seq, 1,
      LAMBDA k :
        LET e == rows[k].event
            result == reclassify(e, fullFlagHeaders(e), e.datacenter_provider)
        IN IF result.bot_classification # e.bot_classification
             THEN << ById({k}, [bot_classification |-> result.bot_classification,
                                bot_name |-> result.bot_name,
                                is_bot   |-> result.bot_classification # "human"]) >>
             ELSE << >>) :
      seq \in byTimestampDesc(rows, undeterminedRows(rows)) }

\* reclassifyAll (part_006): every row of the table
allStatements(rows) ==
  { statementsIn(seq, 1,
      LAMBDA k :
        LET e == rows[k].event
            classification == reclassify(e, flagHeaders(e), e.datacenter_provider)
        IN IF \/ classification.bot_classification # e.bot_classification
              \/ classification.bot_name # e.bot_name
             THEN << ById({k},
                       [bot_classification |-> classification.bot_classification,
                        bot_name        |-> classification.bot_name,
                        detection_level |-> classification.detection_level,
                        is_bot          |-> classification.is_bot]) >>
             ELSE << >>) :
      seq \in byTimestampDesc(rows, 1..Len(rows)) }

\* the rows the script's SELECT returned
selectedBy(script, rows) ==
  CASE script = "training-agents"   -> findTrainingAgents(rows)
    [] script = "hosting-providers" -> hostingRows(rows)
    [] script = "undetermined"      -> undeterminedRows(rows)
    [] OTHER                        -> 1..Len(rows)

\* the sequences of UPDATE statements the script may go on to issue
statementsOf(script, rows, reader) ==
  CASE script = "training-agents"   -> trainingAgentStatements(rows)
    [] script = "all-bots"          -> { allBotsStatements }
    [] script = "as-monitoring"     -> monitoringStatements(rows)
    [] script = "hosting-providers" -> hostingStatements(rows)
    [] script = "with-expanded-asn" -> expandedASNStatements(rows, reader)
    [] script = "undetermined"      -> undeterminedStatements(rows)
    [] script = "all"               -> allStatements(rows)

\* ---- the rows the scripts find ----
\* a row as the ingestion stores it for a request of the kind from the
\* address, and the same row with the columns an earlier classifier wrote
storedRow(kind, address, timestamp, ray) ==
  [run |-> 0,
   event |-> [enrichEvent(parseLogEntry(entryFrom(kind, address), {}).event,
                          cityReader, asnReader)
                EXCEPT !.timestamp = timestamp, !.cf_ray = ray]]

thenHuman == [is_bot |-> FALSE, bot_classification |-> "human", bot_name |-> NULL,
              detection_level |-> NULL]
thenUndetermined == [is_bot |-> TRUE, bot_classification |-> "bot_undetermined",
                     bot_name |-> NULL, detection_level |-> "4"]
noSignals == [has_sec_fetch_headers |-> FALSE, has_client_hints |-> FALSE]

\* tables that earlier versions of the pipeline left: two datacenter
\* addresses stored as human, one of a browser-like agent and one without
\* agent; three rows of one such address; a row of a new hosting ASN
\* stored without provider next to an undetermined one; and a table the
\* ingestion of today wrote
TrainingAgentRows ==
  << setColumns(storedRow("browser", "20.39.203.102", 1000, "a1"), thenHuman @@ noSignals),
     setColumns(storedRow("curl", "45.33.32.156", 2000, "b1"),
                thenHuman @@ noSignals @@ [user_agent |-> ""]) >>
BurstRows ==
  [n \in 1..3 |->
     setColumns(storedRow("browser", "20.39.203.102", 1000 * n, "a" \o ToString(n)),
                thenHuman @@ noSignals)]
HostingRows ==
  << setColumns(storedRow("browser", "185.220.101.4", 1000, "h1"),
                thenHuman @@ [datacenter_provider |-> NULL]),
     setColumns(storedRow("curl", "203.0.113.9", 2000, "u1"), thenUndetermined) >>
IngestedRows ==
  << storedRow("browser", "198.51.100.7", 1000, "i1"),
     storedRow("curl", "203.0.113.9", 2000, "i2") >>
\* browsers of networks that reclassify-all-bots.js names: one request
\* each of three networks, and five requests in four seconds of a fourth
ofNetwork(row, asn, org) ==
  setColumns(row, thenHuman @@ [asn |-> asn, asn_org |-> org,
                                datacenter_provider |-> NULL])
NetworkRows ==
  << ofNetwork(storedRow("browser", "192.0.2.1", 1000, "p1"), "60068", "Datacamp Limited"),
     ofNetwork(storedRow("browser", "2a06:98c0:3600::103", 2000, "p2"),
               "13335", "Cloudflare, Inc."),
     ofNetwork(storedRow("browser", "192.0.2.3", 3000, "p3"),
               "132203", "Shenzhen Tencent Computer Systems Company Limited") >>
  \o [n \in 1..5 |->
        ofNetwork(storedRow("browser", "192.0.2.4", 3000 + 1000 * n, "q" \o ToString(n)),
                  "12389", "Rostelecom")]
Tables == { TrainingAgentRows, BurstRows, HostingRows, IngestedRows, NetworkRows }

\* the row that another client adds to the table while a script runs,
\* any number of times: batchInsert has no unique key
InsertedRows ==
  { setColumns(storedRow("browser", "20.39.203.102", 4000, "a9"), thenHuman @@ noSignals) }

InitReclassify ==
  /\ classifyIdle /\ enrichIdle /\ refreshIdle /\ backfillIdle
  /\ journalctlReadsISO = TRUE
  /\ eGeoReader = cityReader
  /\ eAsnReader \in { asnReader, NoAsnReader(DATACENTER_ASN) }
  /\ journal = << >> /\ clock = 1000 /\ appends = 0 /\ banned = {}
  /\ store \in Tables
  /\ cursorRows = << SeedRow >>
  /\ runsStarted = 0
  /\ pc = [p \in Procs |-> "idle"]
  /\ run = [p \in Procs |-> 0]
  /\ bannedIPsCache = [p \in Procs |-> {}]
  /\ bannedIPsCacheTime = [p \in Procs |-> 0]
  /\ refreshFailed = [p \in Procs |-> FALSE]
  /\ lastProcessed = [p \in Procs |-> NoDate]
  /\ logEntries = [p \in Procs |-> << >>]
  /\ events = [p \in Procs |-> << >>]
  /\ latestTimestamp = [p \in Procs |-> NoDate]
  /\ latestCfRay = [p \in Procs |-> NULL]
  /\ filteredCount = [p \in Procs |-> 0]
  /\ i = [p \in Procs |-> 0]
  /\ scriptIdle

\* node scripts/<script>.js: the config is read and the pool made.  No
\* script takes a lock: it is started whatever the executions started
\* before it, of the same script or another, are doing.
StartScript(script) ==
  /\ sStarted < MaxScripts
  /\ sStarted' = sStarted + 1
  /\ sPc' = [sPc EXCEPT ![script] = Append(@, "select")]
  /\ sTodo' = [sTodo EXCEPT ![script] = Append(@, << >>)]
  /\ UNCHANGED << ingestVars, classifyVars, enrichVars, refreshVars, backfillVars >>

\* the queries before the loop: the statistics some scripts print first,
\* and the SELECT of the rows to go through.  The statements to issue are
\* worked out from the rows as the SELECT returned them.  A script that
\* finds no row returns here or goes on to its summary; a query that
\* rejects ends the process
SelectRows(script, n, ok) ==
  /\ sPc[script][n] = "select"
  /\ IF ~ok /\ script # "all-bots"
       THEN /\ sPc' = [sPc EXCEPT ![script][n] = "failed"]
            /\ UNCHANGED sTodo
     ELSE IF script \in ReturnsWhenEmpty /\ selectedBy(script, store) = {}
       THEN /\ sPc' = [sPc EXCEPT ![script][n] = "close"]
            /\ UNCHANGED sTodo
     ELSE \E todo \in statementsOf(script, store, eAsnReader) :
            /\ sTodo' = [sTodo EXCEPT ![script][n] = todo]
            /\ sPc' = [sPc EXCEPT ![script][n] =
                         IF todo = << >> THEN "stats" ELSE "update"]
  /\ UNCHANGED << sStarted, ingestVars, classifyVars, enrichVars, refreshVars,
                  backfillVars >>

\* await query(<the next UPDATE>): committed, or rejected and the process
\* exits 1
UpdateRows(script, n, ok) ==
  /\ sPc[script][n] = "update"
  /\ IF ok
       THEN /\ \E now \in ScriptClock :
                 store' \in applyStatement(store, Head(sTodo[script][n]), now)
            /\ sTodo' = [sTodo EXCEPT ![script][n] = Tail(@)]
            /\ sPc' = [sPc EXCEPT ![script][n] =
                         IF Len(sTodo[script][n]) = 1 THEN "stats" ELSE "update"]
       ELSE /\ sPc' = [sPc EXCEPT ![script][n] = "failed"]
            /\ UNCHANGED << store, sTodo >>
  /\ UNCHANGED << sStarted, ingestButStore, classifyVars, enrichVars, refreshVars,
                  backfillVars >>

\* the queries of the summary, which only read
SummaryStatistics(script, n, ok) ==
  /\ sPc[script][n] = "stats"
  /\ sPc' = [sPc EXCEPT ![script][n] = IF ok THEN "close" ELSE "failed"]
  /\ UNCHANGED << sTodo, sStarted, ingestVars, classifyVars, enrichVars, refreshVars,
                  backfillVars >>

\* await closeDB()
CloseScript(script, n) ==
  /\ sPc[script][n] = "close"
  /\ sPc' = [sPc EXCEPT ![script][n] = "done"]
  /\ sTodo' = [sTodo EXCEPT ![script][n] = << >>]
  /\ UNCHANGED << sStarted, ingestVars, classifyVars, enrichVars, refreshVars,
                  backfillVars >>

\* another client of the table commits a row
InsertRow(row) ==
  /\ Len(store) < MaxRows
  /\ store' = Append(store, row)
  /\ UNCHANGED << scriptVars, ingestButStore, classifyVars, enrichVars, refreshVars,
                  backfillVars >>

NextReclassify ==
  \/ \E script \in Scripts : StartScript(script)
  \/ \E script \in Scripts, ok \in BOOLEAN : \E n \in DOMAIN sPc[script] :
       SelectRows(script, n, ok)
  \/ \E script \in Scripts, ok \in BOOLEAN : \E n \in DOMAIN sPc[script] :
       UpdateRows(script, n, ok)
  \/ \E script \in Scripts, ok \in BOOLEAN : \E n \in DOMAIN sPc[script] :
       SummaryStatistics(script, n, ok)
  \/ \E script \in Scripts : \E n \in DOMAIN sPc[script] : CloseScript(script, n)
  \/ \E row \in InsertedRows : InsertRow(row)

SpecReclassify == InitReclassify /\ [][NextReclassify]_vars

\* what the ingestion writes holds no candidate of
\* reclassify-training-agents.js: classify gives no datacenter address the
\* category human
NoTrainingAgentCandidates == findTrainingAgents(store) = {}

(***************************************************************************)
(* The classifier's contract, on one call of classify                      *)
(***************************************************************************)
Categories ==
  { "human", "ai_official", "ai_stealth", "web_crawler", "monitoring_service",
    "bot_undetermined", "attack_wordpress_scanner", "attack_webshell_scanner",
    "attack_config_scanner", "attack_exploit_attempt" }

AttackCategories ==
  { "attack_wordpress_scanner", "attack_webshell_scanner",
    "attack_config_scanner", "attack_exploit_attempt" }

\* the headers of the classified event ({} when it has none)
cHeaders == IF has(cEvent, "headers") THEN cEvent.headers ELSE EmptyObject

\* C11: whatever the event has or lacks, classify returns a result whose
\* category is one of the ten of the vocabulary.
C11_ClosedVocabulary ==
  cDone => cResult.bot_classification \in Categories

\* an event with no user agent, no path and no headers has been classified
C11_Witness ==
  /\ cDone
  /\ ~has(cEvent, "user_agent") /\ ~has(cEvent, "path") /\ ~has(cEvent, "headers")
  /\ cResult.bot_classification = "bot_undetermined"

\* C12: an event with a datacenter provider is not classified human, and
\* an event that carries no Sec-Fetch-* header is not classified human.
C12_NeverHumanFromDatacenter ==
  cDone =>
    /\ cEvent.datacenter_provider # NULL => cResult.bot_classification # "human"
    /\ (\A name \in {"Sec-Fetch-Site", "Sec-Fetch-Mode", "Sec-Fetch-Dest",
                     "Sec-Fetch-User"} : ~has(cHeaders, name))
         => cResult.bot_classification # "human"

\* an event that has every browser signal but comes from a datacenter has
\* been classified, and not as human
C12_Witness ==
  /\ cDone
  /\ cEvent.datacenter_provider = "azure"
  /\ get(cEvent, "user_agent") = BrowserUA
  /\ has(cHeaders, "Sec-Fetch-Site") /\ has(cHeaders, "Sec-Ch-Ua")
  /\ ~has(cHeaders, "Webdriver")
  /\ cResult.bot_classification # "human"

\* the five conditions of Stage 1, read off the event: a fetch-intent
\* header (Site, Mode or Dest); client hints or an Accept of text/html; no
\* datacenter provider; no headless or automation marker in the user agent
\* or in the headers given as markers; with a session aggregate of
\* positive duration, at most one request in two seconds
humanGate(event, headers, markers) ==
  /\ \E name \in {"Sec-Fetch-Site", "Sec-Fetch-Mode", "Sec-Fetch-Dest"} :
       truthyHeader(headers, name)
  /\ \/ \E name \in {"Sec-Ch-Ua", "Sec-Ch-Ua-Mobile", "Sec-Ch-Ua-Platform"} :
          truthyHeader(headers, name)
     \/ /\ truthyHeader(headers, "Accept")
        /\ headerIncludes(headers, "Accept", "text/html")
  /\ event.datacenter_provider = NULL
  /\ ~isHeadlessBrowser(get(event, "user_agent"), markers)
  /\ has(event, "sessionStats") =>
       \/ event.sessionStats.duration_seconds = 0
       \/ 2 * event.sessionStats.request_count <= event.sessionStats.duration_seconds

attackWins(attack, result) ==
  attack # NoVerdict => result.bot_classification = attack.bot_classification

\* the user agent is in the table of declared AI crawlers
declaredAI(userAgent) ==
  truthy(userAgent) /\ firstMatch(OFFICIAL_AI_BOTS, userAgent) # NULL

\* C14 as stated: an event whose path fires a Stage-2 rule and whose user
\* agent is a declared AI crawler's gets the attack category of that rule,
\* whatever its headers and provider.
C14_AttackBeforeDeclaredAI ==
  cDone /\ has(cEvent, "path") /\ declaredAI(get(cEvent, "user_agent")) =>
    attackWins(detectAttackTraffic([path |-> cEvent.path]), cResult)

\* C14, amended: such an event gets the attack category of the first
\* Stage-2 rule that fires unless Stage 1 has classified it human.
C14_AttackBeforeDeclaredAIUnlessHuman ==
  /\ cDone /\ has(cEvent, "path") /\ declaredAI(get(cEvent, "user_agent"))
  /\ cResult.bot_classification # "human"
  => attackWins(detectAttackTraffic([path |-> cEvent.path]), cResult)

\* a declared AI crawler asking for a path that two Stage-2 rules match is
\* classified by the first of them
C14_Witness ==
  /\ cDone
  /\ get(cEvent, "user_agent") = GPTBotUA /\ get(cEvent, "path") = "/wp-admin/.env"
  /\ cResult.bot_classification = "attack_wordpress_scanner"

\* the result is the declared AI crawler of the given table key, tier 1
declaredAs(name, result) ==
  name # NULL =>
    /\ result.bot_classification = "ai_official"
    /\ result.bot_name = name
    /\ result.detection_level = "1"

\* C15 as stated: an event whose user agent matches the table of declared
\* AI crawlers is ai_official under the matched key, tier 1, for any
\* headers and provider.
C15_DeclaredAI ==
  cDone /\ truthy(get(cEvent, "user_agent")) =>
    declaredAs(firstMatch(OFFICIAL_AI_BOTS, cEvent.user_agent), cResult)

\* the event was not stopped before Stage 3: not human, no attack path
reachesStage3(attack, result) ==
  attack = NoVerdict /\ result.bot_classification # "human"

\* C15, amended: such an event is ai_official under the matched key, tier
\* 1, unless Stage 1 classified it human or a Stage-2 rule fired on its
\* path.
C15_DeclaredAIAtStage3 ==
  /\ cDone /\ truthy(get(cEvent, "user_agent"))
  /\ reachesStage3(detectAttackTraffic([path |-> get(cEvent, "path")]), cResult)
  => declaredAs(firstMatch(OFFICIAL_AI_BOTS, cEvent.user_agent), cResult)

\* a declared AI crawler from a datacenter is classified under its key
C15_Witness ==
  /\ cDone
  /\ get(cEvent, "user_agent") = ClaudeBotUA /\ cEvent.datacenter_provider = "azure"
  /\ cResult.bot_classification = "ai_official" /\ cResult.bot_name = "ClaudeBot"

\* C16: is_bot is false exactly for category human, and a bot name is
\* given only with a bot category (and with every bot category).
C16_BotFlagAndName ==
  cDone =>
    /\ cResult.is_bot = FALSE <=> cResult.bot_classification = "human"
    /\ cResult.bot_name # NULL <=> cResult.bot_classification \in Categories \ {"human"}

\* a human result has no bot flag and no bot name
C16_Witness ==
  /\ cDone
  /\ cResult.bot_classification = "human"
  /\ cResult.is_bot = FALSE /\ cResult.bot_name = NULL

(***************************************************************************)
(* The order of the rules inside Stage 2 and Stage 3                       *)
(***************************************************************************)
\* the sub-rule of Stage 2 that decides for the path: category and name
\* of the first that matches in the order CMS, web shell (file name and
\* suspicious token), config, exploit; << >> when none matches
stageTwoRule(path) ==
  IF somePattern(wordpressPatterns, path)
    THEN << "attack_wordpress_scanner", "WordPress-Scanner" >>
  ELSE IF /\ somePattern(webshellPatterns, path)
          /\ \E k \in 1..Len(suspiciousTerms) :
               includes(toLowerCase(path), suspiciousTerms[k])
    THEN << "attack_webshell_scanner", "WebShell-Scanner" >>
  ELSE IF somePattern(configPatterns, path)
    THEN << "attack_config_scanner", "Config-Scanner" >>
  ELSE IF somePattern(exploitPatterns, path)
    THEN << "attack_exploit_attempt", "Exploit-Scanner" >>
  ELSE << >>

\* the result is what the rule says: its category and name at tier 1, or
\* no attack category when no rule matched
decidedBy(rule, result) ==
  IF rule = << >> THEN result.bot_classification \notin AttackCategories
  ELSE /\ result.bot_classification = rule[1]
       /\ result.bot_name = rule[2]
       /\ result.detection_level = "1"

\* a web-shell file name without a suspicious token
plainScript(path) ==
  /\ somePattern(webshellPatterns, path)
  /\ \A k \in 1..Len(suspiciousTerms) :
       ~includes(toLowerCase(path), suspiciousTerms[k])

\* C23: for an event that Stage 1 let through, the first Stage-2 sub-rule
\* that matches the path, in the order CMS, web shell with suspicious
\* token, config, exploit, decides category and bot name, at tier 1; a
\* web-shell file name without a suspicious token is not a web-shell scan.
C23_StageTwoOrder ==
  cDone /\ cResult.bot_classification # "human" =>
    /\ decidedBy(stageTwoRule(get(cEvent, "path")), cResult)
    /\ plainScript(get(cEvent, "path")) =>
         cResult.bot_classification # "attack_webshell_scanner"

\* a path that the web-shell rule and the config rule both match went to
\* the web-shell rule
C23_Witness ==
  /\ cDone
  /\ get(cEvent, "path") = "/.git/shell.php"
  /\ cResult.bot_classification = "attack_webshell_scanner"
  /\ cResult.bot_name = "WebShell-Scanner"

\* the verdicts of the five Stage-3 rules on the event, in their order
stageThreeRules(event, headers) ==
  << categorizeOfficialAI(get(event, "user_agent")),
     categorizeWebCrawler(get(event, "user_agent")),
     categorizeMonitoring(event),
     detectDatacenterCrawler(event),
     detectStealthAI(event, headers) >>

\* the rules that gave a verdict
matching(rules) == { k \in 1..Len(rules) : rules[k] # NoVerdict }

\* the result has category, identity and tier of the earliest rule that
\* gave a verdict
earliestWins(rules, result) ==
  \A k \in matching(rules) :
    (\A j \in matching(rules) : k <= j) =>
      /\ result.bot_classification = rules[k].bot_classification
      /\ result.bot_name = rules[k].bot_name
      /\ result.detection_level = rules[k].detection_level

\* C24: an event that reaches Stage 3 and satisfies the predicates of
\* one or more of its rules gets category, identity and tier of the
\* earliest of them in the order declared AI bot, traditional crawler,
\* monitoring service, datacenter systematic crawler, stealth AI.
C24_StageThreeOrder ==
  cDone /\ cResult.bot_classification \notin AttackCategories \cup {"human"} =>
    earliestWins(stageThreeRules(cEvent, cHeaders), cResult)

\* a user agent that the crawler rule and the monitoring rule both match
\* went to the crawler rule
C24_Witness ==
  /\ cDone
  /\ get(cEvent, "user_agent") = "UptimeRobot/2.0"
  /\ categorizeMonitoring(cEvent) # NoVerdict
  /\ cResult.bot_classification = "web_crawler"
  /\ cResult.bot_name = "Generic-Crawler"

\* the path is that of a Cloudflare custom-hostname challenge
challengePath(path) == includes(path, ".well-known/cf-custom-hostname-challenge")

\* a request from a datacenter, without a user agent, for a path that no
\* Stage-2 rule matches
bareDatacenterRequest(event) ==
  /\ truthy(get(event, "datacenter_provider"))
  /\ ~truthy(get(event, "user_agent"))
  /\ has(event, "path")
  /\ stageTwoRule(event.path) = << >>

\* monitoring for a simple root path, {PROVIDER}-Crawler for another
exempted(event, result) ==
  IF event.path \in {"/", "/robots.txt", "/favicon.ico", "/index.html", "/sitemap.xml"}
    THEN result.bot_classification = "monitoring_service"
    ELSE /\ result.bot_classification = "ai_stealth"
         /\ result.bot_name = toUpperCase(event.datacenter_provider) \o "-Crawler"

\* C25 as stated: with a datacenter provider and an empty user agent the
\* event is monitoring_service on a simple root path and ai_stealth,
\* {PROVIDER}-Crawler, on any other non-attack path.
C25_SimpleRootExemption ==
  cDone /\ bareDatacenterRequest(cEvent) => exempted(cEvent, cResult)

\* C25, amended: the same, for any other non-attack path that is not a
\* Cloudflare custom-hostname challenge path (which is monitoring_service,
\* Cloudflare-Verify).
C25_SimpleRootExemptionButChallenge ==
  cDone /\ bareDatacenterRequest(cEvent) =>
    IF challengePath(cEvent.path)
      THEN /\ cResult.bot_classification = "monitoring_service"
           /\ cResult.bot_name = "Cloudflare-Verify"
      ELSE exempted(cEvent, cResult)

\* the same provider and empty user agent on a content path
C25_Witness ==
  /\ cDone
  /\ cEvent.datacenter_provider = "azure" /\ ~truthy(get(cEvent, "user_agent"))
  /\ get(cEvent, "path") = "/articles/42"
  /\ cResult.bot_classification = "ai_stealth" /\ cResult.bot_name = "AZURE-Crawler"

\* a datacenter request with a browser-like user agent that no bot
\* signature matches and without a fetch-intent header
disguisedDatacenterRequest(event, headers) ==
  /\ truthy(get(event, "datacenter_provider"))
  /\ isBrowserUA(get(event, "user_agent"))
  /\ categorizeOfficialAI(event.user_agent) = NoVerdict
  /\ categorizeWebCrawler(event.user_agent) = NoVerdict
  /\ firstMatch(MONITORING_SERVICES, event.user_agent) = NULL
  /\ \A name \in {"Sec-Fetch-Site", "Sec-Fetch-Mode", "Sec-Fetch-Dest"} :
       ~truthyHeader(headers, name)

\* ai_stealth, {PROVIDER}-Stealth-AI, tier 2
stealthAI(event, result) ==
  /\ result.bot_classification = "ai_stealth"
  /\ result.bot_name = toUpperCase(event.datacenter_provider) \o "-Stealth-AI"
  /\ result.detection_level = "2"

\* C26 as stated: a datacenter event with a browser-like user agent that
\* matches no bot signature and with no fetch-intent header is ai_stealth,
\* {PROVIDER}-Stealth-AI, tier 2.
C26_StealthAI ==
  cDone /\ disguisedDatacenterRequest(cEvent, cHeaders) => stealthAI(cEvent, cResult)

\* no earlier rule takes the event: its path matches no Stage-2 rule and
\* is no challenge path, and its user agent is longer than SHORT_UA_LENGTH
\* unless the path is absent or a simple root path
pastEarlierRules(userAgent, path) ==
  /\ stageTwoRule(path) = << >>
  /\ ~challengePath(path)
  /\ \/ Len(userAgent) > SHORT_UA_LENGTH
     \/ path = NULL
     \/ path \in {"/", "/robots.txt", "/favicon.ico", "/index.html", "/sitemap.xml"}

\* C26, amended: such an event is ai_stealth, {PROVIDER}-Stealth-AI, tier
\* 2, when no earlier rule takes it: its path matches no attack rule and
\* is no Cloudflare challenge path, and its user agent is longer than 50
\* characters or its path is absent or a simple root path.
C26_StealthAIPastEarlierRules ==
  /\ cDone /\ disguisedDatacenterRequest(cEvent, cHeaders)
  /\ pastEarlierRules(cEvent.user_agent, get(cEvent, "path"))
  => stealthAI(cEvent, cResult)

\* a standard browser user agent from a datacenter without fetch-intent
\* headers
C26_Witness ==
  /\ cDone
  /\ get(cEvent, "user_agent") = BrowserUA /\ cEvent.datacenter_provider = "azure"
  /\ get(cEvent, "path") = "/docs/guide"
  /\ cResult.bot_name = "AZURE-Stealth-AI" /\ cResult.detection_level = "2"

\* C27: in a bot_undetermined result the reason names the missing user
\* agent exactly when the user agent is empty, the datacenter exactly when
\* the provider is set, and the missing fetch-intent headers exactly when
\* the event has none of Sec-Fetch-Site, Sec-Fetch-Mode, Sec-Fetch-Dest;
\* it is the generic text only when none of the three applies.
C27_TruthfulDiagnostics ==
  cDone /\ cResult.bot_classification = "bot_undetermined" =>
    /\ includes(cResult.detection_reason, "No User-Agent")
         <=> ~truthy(get(cEvent, "user_agent"))
    /\ includes(cResult.detection_reason, "Datacenter: ")
         <=> truthy(cEvent.datacenter_provider)
    /\ includes(cResult.detection_reason, "Missing Sec-Fetch headers")
         <=> \A name \in {"Sec-Fetch-Site", "Sec-Fetch-Mode", "Sec-Fetch-Dest"} :
               ~truthyHeader(cHeaders, name)
    /\ cResult.detection_reason = "Failed human verification checks" =>
         /\ truthy(get(cEvent, "user_agent"))
         /\ ~truthy(cEvent.datacenter_provider)
         /\ \E name \in {"Sec-Fetch-Site", "Sec-Fetch-Mode", "Sec-Fetch-Dest"} :
              truthyHeader(cHeaders, name)

(***************************************************************************)
(* The security flags of the events a run persists                         *)
(***************************************************************************)
\* C18: every persisted event that is not classified human has
\* is_exploit_attempt true exactly when its category is one of the four
\* attack categories.
C18_ExploitFlagConsistent ==
  \A k \in 1..Len(store) :
    store[k].event.bot_classification # "human" =>
      (store[k].event.is_exploit_attempt
         <=> store[k].event.bot_classification \in AttackCategories)

(***************************************************************************)
(* The order of the statements of enrichEvent, and its two lookups         *)
(***************************************************************************)
ParsedFields ==
  { "timestamp", "duration", "client_ip", "cf_ray", "site", "method", "path",
    "query_string", "status", "response_size", "content_type", "user_agent",
    "referer", "accept_language", "headers" }

\* the event as parseLogEntry returned it, read back from the returned one
parsedOf(event) ==
  [f \in ParsedFields |-> IF f = "headers" THEN event.headers_json ELSE event[f]]

\* one of the fields has been assigned; all of them have
written(fields)   == fields \cap DOMAIN eEvent # {}
populated(fields) == fields \subseteq DOMAIN eEvent

\* what enrichEvent returns has every field of the stored row
complete ==
  populated((ParsedFields \ {"headers"}) \cup GeoFields \cup NetworkFields
            \cup {"subnet"} \cup ClassificationFields \cup SignalFields
            \cup BotHeaderFields \cup SecurityFields \cup {"headers_json"})

\* C17: the classification fields are written only after the
\* geo, network and signal fields are populated, and the event that is
\* returned for persistence has all of its fields.
C17_ClassificationLast ==
  /\ written(ClassificationFields) =>
       populated(GeoFields \cup NetworkFields \cup SignalFields)
  /\ ePc = "returned" => complete

\* the labels the provider table of the process has for the number
explicitLabels(asn) == { e[2] : e \in { d \in eAsnReader.table : d[1] = asn } }

\* the organization name matches a keyword pattern
keywordOrg(org) == truthy(org) /\ somePattern(DATACENTER_PATTERNS, org)

\* the table's label if there is one, else hosting for a keyword match,
\* else null
precedence(response, provider) ==
  IF explicitLabels(response.autonomousSystemNumber) # {}
    THEN provider \in explicitLabels(response.autonomousSystemNumber)
  ELSE IF keywordOrg(response.autonomousSystemOrganization)
    THEN provider = "hosting"
  ELSE provider = NULL

\* hosting is for numbers without an entry and with a keyword match
hostingIsGeneric(response, provider) ==
  provider = "hosting" =>
    /\ explicitLabels(response.autonomousSystemNumber) = {}
    /\ keywordOrg(response.autonomousSystemOrganization)

\* the step is the lookup of enrichEvent in the registry, which answers
\* for the address of the event; the table is read as the lookup finds it
resolved ==
  /\ ePc = "asn" /\ ePc' = "subnet"
  /\ eAsnReader.loaded
  /\ eEvent.client_ip \in DOMAIN AsnDb

\* C19 as stated: the label of the explicit entry whatever the
\* organization name; hosting only without an explicit entry and with a
\* keyword match; null otherwise.
C19_HostingOnlyByKeyword ==
  [][resolved =>
       /\ precedence(AsnDb[eEvent.client_ip], eEvent'.datacenter_provider)
       /\ hostingIsGeneric(AsnDb[eEvent.client_ip], eEvent'.datacenter_provider)]_vars

\* C19, amended: the label of the explicit entry whatever the organization
\* name (hosting for the entries the table labels so); without an entry,
\* hosting when the organization name matches a keyword; null otherwise.
C19_ExplicitEntryFirst ==
  [][resolved =>
       precedence(AsnDb[eEvent.client_ip], eEvent'.datacenter_provider)]_vars

\* a number with an entry and an organization name with a keyword has
\* been given the entry's label
C19_Witness ==
  /\ ePc = "subnet" /\ eAsnReader.loaded
  /\ eEvent.asn = "63949" /\ keywordOrg(eEvent.asn_org)
  /\ eEvent.datacenter_provider = "linode"

\* the lookup of the event's address has no answer from the reader as it
\* is when the lookup is made
noCity == ~eGeoReader.loaded \/ eEvent.client_ip \notin DOMAIN CityDb
noASN  == ~eAsnReader.loaded \/ eEvent.client_ip \notin DOMAIN AsnDb

thrownBy(p) ==
  { n \in 1..Len(logEntries[p]) :
      outcomeOfKind[logEntries[p][n].kind][bannedIPsCache[p]]
                   [<< eGeoReader, eAsnReader >>].tag = "TypeError" }

\* C21: a record whose parsing or enrichment throws is skipped and counted
\* (every entry of the run is either an event or in the run's count of
\* skipped records), is not persisted, and does not fail the run.
C21_MalformedSkippedAndCounted ==
  \A p \in Procs :
    looped(p) =>
      /\ Len(events[p]) + filteredCount[p] = Len(logEntries[p])
      /\ Len(events[p]) <= Len(logEntries[p]) - Cardinality(thrownBy(p))
      /\ pc[p] = "failed" => Len(events[p]) > 0

\* the largest timestamp among the events
RECURSIVE maxTimestamp(_)
maxTimestamp(evs) ==
  IF Len(evs) = 0 THEN NoDate
  ELSE LET rest == maxTimestamp(Tail(evs))
       IN IF Head(evs).timestamp > rest THEN Head(evs).timestamp ELSE rest

\* the row carries the largest timestamp of the events, the Cf-Ray of an
\* event with that timestamp, and the number of events
carries(row, evs, since) ==
  /\ row.last_processed_timestamp = maxTimestamp(evs)
  /\ row.last_processed_timestamp >= since
  /\ \E k \in 1..Len(evs) :
       /\ evs[k].timestamp = row.last_processed_timestamp
       /\ evs[k].cf_ray = row.last_cf_ray
  /\ row.records_processed = Len(evs)

\* C22: the cursor row of a successful run carries the maximum timestamp
\* over the events the run persisted, not less than the cursor it resolved,
\* the Cf-Ray of the record with that timestamp, and the number of events
\* the run committed to the store.
C22_CursorRowCarriesLatest ==
  \A p \in Procs :
    pc[p] = "done" =>
      \A k \in 1..Len(cursorRows) :
        cursorRows[k].run = run[p] =>
          /\ carries(cursorRows[k], events[p], lastProcessed[p])
          /\ Len(storedBy(run[p])) = cursorRows[k].records_processed

(***************************************************************************)
(* The freshness of the denylist cache                                     *)
(***************************************************************************)
\* the step is a call of refreshBannedIPsCache
called == rCalls' = rCalls + 1

\* less than CACHE_TTL has passed since a listing was last stored
insideInterval == rLastSuccess # NoDate /\ rClock - rLastSuccess < CACHE_TTL

\* C28: the reputation service is queried only when at least 60 seconds
\* have passed since the last successful refresh; a call inside that
\* interval leaves the cache and its refresh time unchanged; a failed
\* refresh leaves the refresh time unchanged, and the call after it queries
\* again.
C28_CacheFreshness ==
  [][called =>
       /\ insideInterval => rOutcome' = "fresh"
       /\ rOutcome' = "fresh" => rCache' = rCache /\ rCacheTime' = rCacheTime
       /\ rOutcome' = "failed" => rCache' = rCache /\ rCacheTime' = rCacheTime
       /\ rOutcome = "failed" => rOutcome' # "fresh"]_vars

\* a call inside the interval has left a listing in the cache that the
\* service no longer gives
C28_Witness ==
  /\ rOutcome = "fresh"
  /\ rCache = {SuspectIP} /\ rBanned = {}
  /\ rClock - rLastSuccess = CACHE_TTL - 1

(***************************************************************************)
(* The batches of a run                                                    *)
(***************************************************************************)
\* the rows of a run are the first `start` of its events, one row each and
\* in their order, or all of them when start is beyond the last
prefixStored(rows, evs, start) ==
  rows = SubSeq(evs, 1, IF start < Len(evs) THEN start ELSE Len(evs))

\* C29: in a run that reaches the batch loop and has not failed, the rows
\* it has added are its events in extraction order, each once; the
\* committed batches are whole blocks of BATCH_SIZE but for the last; and
\* once the loop has ended the run has added as many rows as it has events.
C29_BatchPartition ==
  \A p \in Procs : pc[p] \in {"persist", "advance", "close", "done"} =>
    /\ prefixStored(storedBy(run[p]), events[p], i[p])
    /\ i[p] % BATCH_SIZE = 0
    /\ pc[p] = "persist" => i[p] < Len(events[p])
    /\ pc[p] # "persist" => i[p] >= Len(events[p])

\* a run has committed a whole batch and then a last batch of one event
C29_Witness ==
  \E p \in Procs :
    /\ pc[p] = "advance"
    /\ Len(events[p]) = BATCH_SIZE + 1 /\ i[p] = 2 * BATCH_SIZE
    /\ Len(storedBy(run[p])) = BATCH_SIZE + 1

(***************************************************************************)
(* Running the backfill again                                              *)
(***************************************************************************)
\* the rows of the store whose timestamp is on the day
rowsOn(rows, day) ==
  { k \in 1..Len(rows) :
      /\ rows[k].event.timestamp >= startDateOf(day)
      /\ rows[k].event.timestamp < startDateOf(day + 1) }

\* C30: processDay inserts nothing for a day of which the store already
\* holds an event, so that an execution over days that an earlier
\* execution completed adds no rows, and a day committed in part is
\* skipped too: an execution enters the loop of processDay only for a day
\* without rows that no completed execution has covered.
C30_BackfillIdempotent ==
  [][\A e \in 1..MaxBackfills :
       bPc[e] = "day" /\ bPc'[e] = "insert" =>
         /\ rowsOn(store, bDay(e)) = {}
         /\ bDay(e) \notin bCompleted]_vars

\* the loop is entered when the query counts no row: for a day without
\* rows before its last millisecond
C30_SkipsWhatTheCheckCounts ==
  [][\A e \in 1..MaxBackfills :
       bPc[e] = "day" /\ bPc'[e] = "insert" =>
         checkExistingData(store, startDateOf(bDay(e)), endDateOf(bDay(e))) = 0]_vars

====
